---- MODULE Spec2Model ----
(***************************************************************************)
(* Model of the feedback service's submission store (backend/main.py):     *)
(* the JSON file behind submissions_lock with its mtime-keyed cache and    *)
(* write-to-temp-then-rename discipline, the sentiment heuristic, the AI   *)
(* pack generator with its instant-pack fallback, and the submit-review    *)
(* handler that ties them together.                                        *)
(*                                                                         *)
(* Abstractions.  A timestamp (datetime.now().isoformat(), compared        *)
(* lexicographically) is the clock reading it formats; the formatting is   *)
(* fixed-width and order preserving, so integers compare as the strings    *)
(* do.  An id "sub_<YYYYmmddHHMMSS>_<n>" is the pair <<second, n>>.  A     *)
(* review text is the set of heuristic keywords it contains as substrings  *)
(* plus whether it is blank.  Generated prose is a tag naming the template *)
(* (or the model) that produced it; "" is the empty string.                *)
(***************************************************************************)
EXTENDS Integers, Sequences, FiniteSets, TLC

\* ------------------------------------------------------------------ bounds
MaxClock == 1        \* the clock stops ticking here
TicksPerSecond == 2  \* clock readings that share one wall-clock second
RandBelow == 2       \* range of the id's random suffix (100 in the code)
MaxRecords == 2      \* submit-review is not started beyond this many records
MaxFutures == 3      \* generate_ai_pack is not called beyond this many futures

Threads == {"t1", "t2"}

\* Python's None where an Optional[int] is expected
None == -1

\* ------------------------------------------------------- sentiment heuristic
strong_pos == {"amazing", "excellent", "outstanding", "perfect", "incredible",
               "fantastic", "love", "highly recommend"}
soft_pos == {"good", "tasty", "fresh", "nice", "friendly", "enjoyed",
             "satisfied", "would come back"}
strong_neg == {"terrible", "horrible", "awful", "worst", "disgusting",
               "never again", "ruined", "unacceptable"}
soft_neg == {"bad", "cold", "slow", "rude", "disappointed", "disappointing",
             "overpriced", "not good"}

\* a text: empty, blank (empty or whitespace only), or the keywords found in
\* it; words: how many whitespace-separated words it has; terminal: whether
\* the last of its first 18 words ends in ".", "!" or "?"
Text(blank, kws) ==
    [empty |-> FALSE, blank |-> blank, kws |-> kws,
     words |-> IF blank THEN 0 ELSE 1, terminal |-> FALSE]
EmptyText ==
    [empty |-> TRUE, blank |-> TRUE, kws |-> {}, words |-> 0, terminal |-> FALSE]
BlankText == Text(TRUE, {})
PlainText == Text(FALSE, {})
NegativeText == Text(FALSE, {"terrible", "rude"})
PositiveText == Text(FALSE, {"good"})
\* a text without keywords, of n words (n > 0)
Words(n, terminal) == [PlainText EXCEPT !.words = n, !.terminal = terminal]

\* the accumulated keyword score of a non-blank text
KeywordScore(text) ==
    2 * Cardinality(text.kws \cap strong_pos)
    + Cardinality(text.kws \cap soft_pos)
    - 2 * Cardinality(text.kws \cap strong_neg)
    - Cardinality(text.kws \cap soft_neg)

InRange(n) == 1 <= n /\ n <= 5

\* a variant that clamps an out-of-range rating to the nearest end of 1..5
BaseRatingMutNearest(rating) == IF rating < 1 THEN 1 ELSE IF rating > 5 THEN 5 ELSE rating

\* base = int(rating), 3 when outside 1..5
BaseRating(rating) == IF InRange(rating) THEN rating ELSE 3

\* a variant that answers the neutral 3 for a blank text
predict_stars_mut_blank_is_neutral(rating, text) ==
    IF text.blank THEN 3
    ELSE LET score == KeywordScore(text)
             base == BaseRating(rating)
         IN  IF score >= 4 THEN 5
             ELSE IF score = 3 THEN 4
             ELSE IF score = 2 THEN (IF base >= 4 THEN 4 ELSE 3)
             ELSE IF score = 1 THEN (IF base <= 3 THEN 3 ELSE 4)
             ELSE IF score = 0 THEN base
             ELSE IF score = -1 THEN (IF base <= 3 THEN 2 ELSE 3)
             ELSE 1

\* a variant in which a strongly negative text keeps the base rating
predict_stars_mut_negative_keeps_base(rating, text) ==
    IF text.blank
    THEN IF InRange(rating) THEN rating ELSE None
    ELSE LET score == KeywordScore(text)
             base == BaseRating(rating)
         IN  IF score >= 4 THEN 5
             ELSE IF score = 3 THEN 4
             ELSE IF score = 2 THEN (IF base >= 4 THEN 4 ELSE 3)
             ELSE IF score = 1 THEN (IF base <= 3 THEN 3 ELSE 4)
             ELSE IF score = 0 THEN base
             ELSE IF score = -1 THEN (IF base <= 3 THEN 2 ELSE 3)
             ELSE base

\* _predict_stars_from_text_heuristic
predict_stars_from_text_heuristic(rating, text) ==
    IF text.blank
    THEN IF InRange(rating) THEN rating ELSE None
    ELSE LET score == KeywordScore(text)
             base == BaseRating(rating)
         IN  IF score >= 4 THEN 5
             ELSE IF score = 3 THEN 4
             ELSE IF score = 2 THEN (IF base >= 4 THEN 4 ELSE 3)
             ELSE IF score = 1 THEN (IF base <= 3 THEN 3 ELSE 4)
             ELSE IF score = 0 THEN base
             ELSE IF score = -1 THEN (IF base <= 3 THEN 2 ELSE 3)
             ELSE 1

\* ------------------------------------------------------------ the AI pack
Pack(resp, summ, acts, stars, expl) ==
    [ai_response |-> resp, ai_summary |-> summ, ai_recommended_actions |-> acts,
     predicted_stars |-> stars, prediction_explanation |-> expl]

Tone(effective_rating) ==
    IF effective_rating <= 2 THEN "low"
    ELSE IF effective_rating = 3 THEN "mid" ELSE "high"

\* review_text.strip().split()[:18]
SnippetWords == 18

\* the snippet _instant_ai_pack embeds in its templates: the first
\* SnippetWords words joined by single spaces, and "..." appended when the
\* snippet is not empty and does not end in ".", "!" or "?"
Snippet(text) ==
    LET kept == IF text.words > SnippetWords THEN SnippetWords ELSE text.words
    IN  [words |-> kept, ellipsis |-> kept > 0 /\ ~text.terminal]
NoSnippet == [words |-> None, ellipsis |-> FALSE]

\* a variant that takes tone and prediction from the numeric rating alone
instant_ai_pack_mut_tone_from_rating(rating, text, username) ==
    LET effective_rating == BaseRating(rating)
        tone == Tone(effective_rating)
    IN  Pack(IF tone = "low" THEN "instant_low_response"
             ELSE IF tone = "mid" THEN "instant_mid_response"
             ELSE "instant_high_response",
             IF tone = "low" THEN "instant_low_summary"
             ELSE IF tone = "mid" THEN "instant_mid_summary"
             ELSE "instant_high_summary",
             IF tone = "low" THEN "instant_low_actions"
             ELSE IF tone = "mid" THEN "instant_mid_actions"
             ELSE "instant_high_actions",
             effective_rating,
             "instant_explanation")

\* _instant_ai_pack: the templates of the tone of the effective rating
instant_ai_pack(rating, text, username) ==
    LET sentiment_based == predict_stars_from_text_heuristic(rating, text)
        base_rating == BaseRating(rating)
        effective_rating ==
            IF sentiment_based # None THEN sentiment_based ELSE base_rating
        tone == Tone(effective_rating)
        predicted_stars ==
            IF InRange(effective_rating) THEN effective_rating ELSE 3
    IN  Pack(IF tone = "low" THEN "instant_low_response"
             ELSE IF tone = "mid" THEN "instant_mid_response"
             ELSE "instant_high_response",
             IF tone = "low" THEN "instant_low_summary"
             ELSE IF tone = "mid" THEN "instant_mid_summary"
             ELSE "instant_high_summary",
             IF tone = "low" THEN "instant_low_actions"
             ELSE IF tone = "mid" THEN "instant_mid_actions"
             ELSE "instant_high_actions",
             predicted_stars,
             "instant_explanation")

\* a variant whose pack has no recommended actions
fallback_ai_pack_mut_no_actions(rating, text, username) ==
    [instant_ai_pack(rating, text, username) EXCEPT !.ai_recommended_actions = ""]

\* _fallback_ai_pack
fallback_ai_pack(rating, text, username) == instant_ai_pack(rating, text, username)

(***************************************************************************)
(* What the external model does with one call.  kind: "not_configured"     *)
(* (model is None), "timeout", "exception" (the call raises), "unparsable" *)
(* (no JSON object in the text, the empty text included), or "json": an    *)
(* object whose three prose fields are "" (missing, empty or whitespace)   *)
(* or model text, and whose predicted_stars is a Pred value.               *)
(***************************************************************************)
Pred(kind, val) == [kind |-> kind, val |-> val]
\* val: what int() makes of the value where it converts (a float is cut)
PredValues == {Pred("missing", 0), Pred("empty_string", 0),
               Pred("non_numeric", 0), Pred("int", 0), Pred("int", 3),
               Pred("int", 6), Pred("float", 2), Pred("numeric_string", 4)}

ModelOut(kind, resp, summ, acts, pred, expl) ==
    [kind |-> kind, ai_response |-> resp, ai_summary |-> summ,
     ai_recommended_actions |-> acts, predicted_stars |-> pred,
     prediction_explanation |-> expl]

NoAnswer(kind) == ModelOut(kind, "", "", "", Pred("missing", 0), "")

ModelOutputs ==
    {NoAnswer(k) : k \in {"not_configured", "timeout", "exception", "unparsable"}}
    \cup {ModelOut("json", r, s, a, p, e) :
            r \in {"", "model_response"}, s \in {"", "model_summary"},
            a \in {"", "model_actions"}, p \in PredValues,
            e \in {"", "model_explanation"}}

\* a variant of the parse without the check of the range 1..5
ParsePredictedMutNoRangeCheck(pred) ==
    IF pred.kind \in {"int", "float", "numeric_string"} THEN pred.val ELSE None

\* int(predicted) within its try block: None when absent, "" or not a number,
\* or when the number is outside 1..5
ParsePredicted(pred) ==
    IF pred.kind \in {"int", "float", "numeric_string"} /\ InRange(pred.val)
    THEN pred.val ELSE None

\* a variant that keeps the model's prediction when it discards its prose
generate_ai_pack_mut_keeps_prediction(rating, text, username, out) ==
    IF out.kind # "json" THEN fallback_ai_pack(rating, text, username)
    ELSE LET parsed_stars == ParsePredicted(out.predicted_stars)
             predicted_stars ==
                 IF parsed_stars # None THEN parsed_stars
                 ELSE predict_stars_from_text_heuristic(rating, text)
         IN  IF out.ai_response = "" \/ out.ai_summary = ""
                \/ out.ai_recommended_actions = ""
             THEN [fallback_ai_pack(rating, text, username)
                      EXCEPT !.predicted_stars = predicted_stars]
             ELSE Pack(out.ai_response, out.ai_summary, out.ai_recommended_actions,
                       predicted_stars,
                       IF out.prediction_explanation # ""
                       THEN out.prediction_explanation ELSE "AI prediction")

\* generate_ai_pack, given what the model did with the call
generate_ai_pack(rating, text, username, out) ==
    IF out.kind = "not_configured" THEN fallback_ai_pack(rating, text, username)
    ELSE IF out.kind = "exception" THEN fallback_ai_pack(rating, text, username)
    ELSE LET json == out.kind = "json"
             ai_response == IF json THEN out.ai_response ELSE ""
             ai_summary == IF json THEN out.ai_summary ELSE ""
             ai_actions == IF json THEN out.ai_recommended_actions ELSE ""
             explanation ==
                 IF json /\ out.prediction_explanation # ""
                 THEN out.prediction_explanation ELSE "AI prediction"
             parsed_stars ==
                 IF json THEN ParsePredicted(out.predicted_stars) ELSE None
             predicted_stars ==
                 IF parsed_stars # None THEN parsed_stars
                 ELSE predict_stars_from_text_heuristic(rating, text)
         IN  IF ai_response = "" \/ ai_summary = "" \/ ai_actions = ""
             THEN fallback_ai_pack(rating, text, username)
             ELSE Pack(ai_response, ai_summary, ai_actions, predicted_stars,
                       explanation)

\* -------------------------------------------------------------- records
Fields == {"id", "rating", "review_text", "user_id", "username", "ai_response",
           "ai_summary", "ai_recommended_actions", "predicted_stars",
           "prediction_explanation", "timestamp", "status"}

MaxSecond == MaxClock \div TicksPerSecond
Second(clock) == clock \div TicksPerSecond

\* f"sub_{datetime.now().strftime('%Y%m%d%H%M%S')}_{secrets.randbelow(100)}"
SubmissionId(clock, rnd) == <<Second(clock), rnd>>
\* an id no submission ever gets
MissingId == <<MaxSecond + 1, 0>>

\* the dict submit_review builds
BuildSubmission(id, rating, text, pack, clock) ==
    [id |-> id, rating |-> rating, review_text |-> text,
     user_id |-> "None", username |-> "None",
     ai_response |-> pack.ai_response, ai_summary |-> pack.ai_summary,
     ai_recommended_actions |-> pack.ai_recommended_actions,
     predicted_stars |-> pack.predicted_stars,
     prediction_explanation |-> pack.prediction_explanation,
     timestamp |-> clock, status |-> "completed"]

NoRecord == BuildSubmission(MissingId, 0, BlankText, Pack("", "", "", None, ""), 0)

\* a partial field set: the keys it names and their values (rec's other
\* fields are not part of it)
Patch(keys, rec) == [keys |-> keys, rec |-> rec]
NoPatch == Patch({}, NoRecord)

\* a variant that replaces the record by the updates instead of merging
MergeFieldMutReplace(s, u, f) == IF f \in u.keys THEN u.rec[f] ELSE NoRecord[f]

\* {**s, **updates}
MergeField(s, u, f) == IF f \in u.keys THEN u.rec[f] ELSE s[f]

Merge(s, u) ==
    [id |-> MergeField(s, u, "id"),
     rating |-> MergeField(s, u, "rating"),
     review_text |-> MergeField(s, u, "review_text"),
     user_id |-> MergeField(s, u, "user_id"),
     username |-> MergeField(s, u, "username"),
     ai_response |-> MergeField(s, u, "ai_response"),
     ai_summary |-> MergeField(s, u, "ai_summary"),
     ai_recommended_actions |-> MergeField(s, u, "ai_recommended_actions"),
     predicted_stars |-> MergeField(s, u, "predicted_stars"),
     prediction_explanation |-> MergeField(s, u, "prediction_explanation"),
     timestamp |-> MergeField(s, u, "timestamp"),
     status |-> MergeField(s, u, "status")]

\* a variant of the updates dict that leaves the timestamp out
TaskUpdatesMutNoTimestamp(pack, clock) ==
    Patch({"ai_response", "ai_summary", "ai_recommended_actions",
           "predicted_stars", "prediction_explanation", "status"},
          [NoRecord EXCEPT !.ai_response = pack.ai_response,
                           !.ai_summary = pack.ai_summary,
                           !.ai_recommended_actions = pack.ai_recommended_actions,
                           !.predicted_stars = pack.predicted_stars,
                           !.prediction_explanation = pack.prediction_explanation,
                           !.status = "completed"])

\* the updates dict of process_submission_task's normal path
TaskUpdates(pack, clock) ==
    Patch({"ai_response", "ai_summary", "ai_recommended_actions",
           "predicted_stars", "prediction_explanation", "status", "timestamp"},
          [NoRecord EXCEPT !.ai_response = pack.ai_response,
                           !.ai_summary = pack.ai_summary,
                           !.ai_recommended_actions = pack.ai_recommended_actions,
                           !.predicted_stars = pack.predicted_stars,
                           !.prediction_explanation = pack.prediction_explanation,
                           !.status = "completed",
                           !.timestamp = clock])

\* submissions.sort(key=lambda x: x.get("timestamp", ""), reverse=True):
\* a stable sort, records of equal timestamp keep their order
RECURSIVE InsertNewestFirst(_, _)
InsertNewestFirst(sorted, r) ==
    IF sorted = <<>> THEN <<r>>
    ELSE IF Head(sorted).timestamp >= r.timestamp
         THEN <<Head(sorted)>> \o InsertNewestFirst(Tail(sorted), r)
         ELSE <<r>> \o sorted

RECURSIVE SortNewestFirst(_)
SortNewestFirst(list) ==
    IF list = <<>> THEN <<>>
    ELSE InsertNewestFirst(SortNewestFirst(SubSeq(list, 1, Len(list) - 1)),
                           list[Len(list)])

\* a variant of the search that settles on the first record when none has the id
FirstIndexMutAlwaysFound(list, id) ==
    IF \E i \in 1..Len(list) : list[i].id = id
    THEN CHOOSE i \in 1..Len(list) :
            list[i].id = id /\ \A j \in 1..(i - 1) : list[j].id # id
    ELSE IF list = <<>> THEN 0 ELSE 1

\* the first index whose record has the id, 0 when there is none
FirstIndex(list, id) ==
    IF \E i \in 1..Len(list) : list[i].id = id
    THEN CHOOSE i \in 1..Len(list) :
            list[i].id = id /\ \A j \in 1..(i - 1) : list[j].id # id
    ELSE 0

\* ---------------------------------------------------------------- state
VARIABLES
    now,           \* the wall clock
    files,         \* path -> file: submissions.json and its .tmp sibling
    cache_mtime,   \* _submissions_cache_mtime
    cache_data,    \* _submissions_cache_data
    lock,          \* submissions_lock: its holder, or "free"
    pc,            \* thread -> where it is in its call
    op,            \* thread -> the call it runs and its arguments
    subs,          \* thread -> its local list `submissions`
    ret,           \* thread -> what its last call returned
    calls,         \* thread -> its call of generate_ai_pack
    futures,       \* the futures submitted to _ai_executor, oldest first
    users_lock     \* users_lock: its holder, or "free"

vars == <<now, files, cache_mtime, cache_data, lock, pc, op, subs, ret,
          calls, futures, users_lock>>

DATA_FILE == "submissions.json"
\* a variant that writes the target file in place
tmp_path_mut_in_place(path) == path

\* path.with_suffix(path.suffix + ".tmp")
tmp_path(path) == "submissions.json.tmp"
USERS_FILE == "users.json"
Paths == {DATA_FILE, "submissions.json.tmp", USERS_FILE}

\* a file: absent, cut short in the middle of a write (no JSON document), or
\* a whole JSON document.  shape: "list" (a JSON list, what the server writes),
\* "wrapped" (an object holding the list under "submissions"), "other" (any
\* other document; `list` is then a list it holds under some other key)
File(complete, list, mtime) ==
    [exists |-> TRUE, complete |-> complete, shape |-> "list", list |-> list,
     mtime |-> mtime]
Absent ==
    [exists |-> FALSE, complete |-> FALSE, shape |-> "list", list |-> <<>>,
     mtime |-> 0]
ShapedFile(shape, list, mtime) == [File(TRUE, list, mtime) EXCEPT !.shape = shape]

\* role: the role claim of the principal the request came with ("none": no
\* Authorization header); no handler of the store takes it as an argument
\* a user of users.json, by the fields the server reads again
User(email, role) == [email |-> email, role |-> role]
\* the users ensure_default_users creates
DefaultUsers == <<User("admin@gmail.com", "admin"), User("user@gmail.com", "user")>>

\* the files as the import of the module leaves them on a data directory that
\* holds this submission list: both files exist, the default users are there
InitialFiles(list) ==
    [p \in Paths |->
        IF p = DATA_FILE THEN File(TRUE, list, 0)
        ELSE IF p = USERS_FILE THEN File(TRUE, DefaultUsers, 0)
        ELSE Absent]

\* the query of GET analytics.  rating: None when absent.  start_date and
\* end_date: absent (or ""), a date (val: the clock reading it parses to), or
\* a string datetime.fromisoformat rejects
DateArg(kind, val) == [kind |-> kind, val |-> val]
NoDate == DateArg("absent", 0)
Query(date_range, rating, start_date, end_date) ==
    [date_range |-> date_range, rating |-> rating, start_date |-> start_date,
     end_date |-> end_date]
NoQuery == Query("all", None, NoDate, NoDate)

Op(kind, id, patch, sub) ==
    [kind |-> kind, id |-> id, patch |-> patch, sub |-> sub, role |-> "none",
     query |-> NoQuery]
NoOp == Op("none", MissingId, NoPatch, NoRecord)

Ret(tag, val) == [tag |-> tag, val |-> val]
NoRet == Ret("none", <<>>)

InFlight(t) == pc[t] \notin {"idle", "done"}

\* a call of generate_ai_pack: its arguments, what the model did for it (out),
\* the future it waits on (0: none), the pack it returned, and what
\* _predict_stars_from_text_heuristic made of its arguments once applied
NoPack == Pack("", "", "", None, "")
Call(stage, rating, text, out, fut, pack, scored, stars) ==
    [stage |-> stage, rating |-> rating, text |-> text, out |-> out, fut |-> fut,
     pack |-> pack, scored |-> scored, stars |-> stars, snippet |-> NoSnippet]
NoCall == Call("idle", 0, EmptyText, NoAnswer("timeout"), 0, NoPack, FALSE, None)

\* a future of _ai_executor: queued, running on a worker, or done with what
\* model.generate_content did
Future(state, out) == [state |-> state, out |-> out]

\* ------------------------------------------------------------------ inputs
Ratings == 1..5
\* what a request may carry as its rating
RequestRatings == 0..6
Texts == {BlankText, PlainText, NegativeText, PositiveText}
RequestTexts == Texts \cup {EmptyText}
\* what the store runs submit: the store does not look into a record
StoreRatings == {2}
StoreTexts == {NegativeText}
\* model behaviours the store runs draw from
StoreOutputs == {NoAnswer("not_configured")}
\* partial field sets given to update_submission_return
StatusPatch == Patch({"status"}, [NoRecord EXCEPT !.status = "failed"])
ResponsePatch ==
    Patch({"ai_response"}, [NoRecord EXCEPT !.ai_response = "corrected_response"])
RatingPatch ==
    Patch({"rating", "review_text"},
          [NoRecord EXCEPT !.rating = 5, !.review_text = PlainText])
Patches == {StatusPatch, ResponsePatch, RatingPatch}
\* the one the concurrent store runs give
StorePatches == {StatusPatch}

StoredIds == {files[DATA_FILE].list[i].id : i \in 1..Len(files[DATA_FILE].list)}
TargetIds == StoredIds \cup {MissingId}

\* ----------------------------------------------------------- the store
\* _submissions_cache_mtime == mtime
CacheHit ==
    files[DATA_FILE].exists /\ cache_mtime = files[DATA_FILE].mtime

\* a variant that takes whatever list the document holds
load_submissions_unlocked_mut_any_shape ==
    IF ~files[DATA_FILE].exists THEN <<>>
    ELSE IF CacheHit THEN cache_data
    ELSE IF ~files[DATA_FILE].complete THEN <<>>
    ELSE SortNewestFirst(files[DATA_FILE].list)

\* _load_submissions_unlocked: the cached list when the file's mtime is the
\* cached one, else the records of the file's list sorted newest first; []
\* when the file is no JSON document or a document of another shape
load_submissions_unlocked ==
    IF ~files[DATA_FILE].exists THEN <<>>
    ELSE IF CacheHit THEN cache_data
    ELSE IF ~files[DATA_FILE].complete THEN <<>>
    ELSE IF files[DATA_FILE].shape = "other" THEN <<>>
    ELSE SortNewestFirst(files[DATA_FILE].list)

\* the cache a load leaves behind: filled on a miss that parsed
LoadFillsCache ==
    files[DATA_FILE].exists /\ ~CacheHit /\ files[DATA_FILE].complete

LoadCache ==
    /\ cache_mtime' = IF LoadFillsCache THEN files[DATA_FILE].mtime ELSE cache_mtime
    /\ cache_data' = IF LoadFillsCache THEN load_submissions_unlocked ELSE cache_data

\* a variant in which submissions_lock excludes nobody
LockFreeMutNoLock == TRUE

\* submissions_lock is not held
LockFree == lock = "free"

Init ==
    /\ now = 0
    /\ files = InitialFiles(<<>>)
    /\ cache_mtime = None
    /\ cache_data = <<>>
    /\ lock = "free"
    /\ pc = [t \in Threads |-> "idle"]
    /\ op = [t \in Threads |-> NoOp]
    /\ subs = [t \in Threads |-> <<>>]
    /\ ret = [t \in Threads |-> NoRet]
    /\ calls = [t \in Threads |-> NoCall]
    /\ futures = <<>>
    /\ users_lock = "free"

\* a thread takes its next call: its arguments are set, the last answer is gone
Starts(t, kind, id, patch, sub) ==
    /\ pc[t] \in {"idle", "done"}
    /\ pc' = [pc EXCEPT ![t] = "acquire"]
    /\ op' = [op EXCEPT ![t] = Op(kind, id, patch, sub)]
    /\ ret' = [ret EXCEPT ![t] = NoRet]
    /\ UNCHANGED <<users_lock, now, files, cache_mtime, cache_data, lock, subs,
                   calls, futures>>

\* GET submissions: load_submissions()
StartLoad(t) == Starts(t, "load", MissingId, NoPatch, NoRecord)

\* the principals a request may come with: none, or a token whose role claim
\* is "user" (register) or "admin" (the default admin)
Principals == {"none", "user", "admin"}

\* GET submissions from a principal: the handler declares no dependency on
\* get_current_user or require_admin, so the principal takes no part in it
GetAllSubmissions(t, role) ==
    /\ pc[t] \in {"idle", "done"}
    /\ pc' = [pc EXCEPT ![t] = "acquire"]
    /\ op' = [op EXCEPT ![t] =
                 [Op("load", MissingId, NoPatch, NoRecord) EXCEPT !.role = role]]
    /\ ret' = [ret EXCEPT ![t] = NoRet]
    /\ UNCHANGED <<users_lock, now, files, cache_mtime, cache_data, lock, subs,
                   calls, futures>>

\* POST submit-review up to its call of save_submission
SubmissionsInFlight ==
    Cardinality({t \in Threads : InFlight(t) /\ op[t].kind = "submit"})

\* ReviewSubmission: rating ge=1 le=5, review_text min_length=1
ReviewSubmissionValid(rating, text) == InRange(rating) /\ ~text.empty

StartSubmit(t, rating, text, rnd, out) ==
    /\ Len(files[DATA_FILE].list) + SubmissionsInFlight < MaxRecords
    /\ ReviewSubmissionValid(rating, text)
    /\ Starts(t, "submit", SubmissionId(now, rnd), NoPatch,
              BuildSubmission(SubmissionId(now, rnd), rating, text,
                              generate_ai_pack(rating, text, "None", out), now))

\* POST submit-review with a body the request model rejects: no handler runs
RejectSubmit(t, rating, text) ==
    /\ pc[t] \in {"idle", "done"}
    /\ ~ReviewSubmissionValid(rating, text)
    /\ pc' = [pc EXCEPT ![t] = "done"]
    /\ op' = [op EXCEPT ![t] = NoOp]
    /\ ret' = [ret EXCEPT ![t] = Ret("422", <<>>)]
    /\ UNCHANGED <<users_lock, now, files, cache_mtime, cache_data, lock, subs,
                   calls, futures>>

\* update_submission_return(submission_id, updates)
StartUpdate(t, id, patch) == Starts(t, "update", id, patch, NoRecord)

\* process_submission_task up to its call of update_submission
StartTask(t, id, rating, text, out) ==
    Starts(t, "task", id,
           TaskUpdates(generate_ai_pack(rating, text, "None", out), now),
           NoRecord)

\* a variant in which load_submissions does not wait for the lock
AcquireMutReadersPass(t) ==
    /\ pc[t] = "acquire"
    /\ LockFree \/ op[t].kind = "load"
    /\ lock' = t
    /\ pc' = [pc EXCEPT ![t] = "locked"]
    /\ UNCHANGED <<users_lock, now, files, cache_mtime, cache_data, op, subs,
                   ret, calls, futures>>

\* a variant in which save_submission does not wait for the lock
AcquireMutAppendsPass(t) ==
    /\ pc[t] = "acquire"
    /\ LockFree \/ op[t].kind = "submit"
    /\ lock' = t
    /\ pc' = [pc EXCEPT ![t] = "locked"]
    /\ UNCHANGED <<users_lock, now, files, cache_mtime, cache_data, op, subs,
                   ret, calls, futures>>

\* with submissions_lock:
Acquire(t) ==
    /\ pc[t] = "acquire"
    /\ LockFree
    /\ lock' = t
    /\ pc' = [pc EXCEPT ![t] = "locked"]
    /\ UNCHANGED <<users_lock, now, files, cache_mtime, cache_data, op, subs,
                   ret, calls, futures>>

Finish(t, r) ==
    /\ pc' = [pc EXCEPT ![t] = "done"]
    /\ ret' = [ret EXCEPT ![t] = r]
    /\ subs' = [subs EXCEPT ![t] = <<>>]
    /\ lock' = "free"

\* load_submissions: the read under the lock
Load(t) ==
    /\ pc[t] = "locked"
    /\ op[t].kind = "load"
    /\ LoadCache
    /\ Finish(t, Ret("list", load_submissions_unlocked))
    /\ UNCHANGED <<users_lock, now, files, op, calls, futures>>

\* save_submission: load, append
SaveAppend(t) ==
    /\ pc[t] = "locked"
    /\ op[t].kind = "submit"
    /\ LoadCache
    /\ subs' = [subs EXCEPT ![t] = Append(load_submissions_unlocked, op[t].sub)]
    /\ pc' = [pc EXCEPT ![t] = "open"]
    /\ UNCHANGED <<users_lock, now, files, lock, op, ret, calls, futures>>

\* load_submissions when DATA_FILE.stat(), open or json.load raises an I/O
\* error: the except branch of _load_submissions_unlocked returns [] and
\* leaves the cache as it is
LoadReadFail(t) ==
    /\ pc[t] = "locked"
    /\ op[t].kind = "load"
    /\ Finish(t, Ret("list", <<>>))
    /\ UNCHANGED <<now, files, cache_mtime, cache_data, op, calls, futures,
                   users_lock>>

\* save_submission when its read raises an I/O error: load_submissions
\* returns [] and the new record is appended to that
SaveAppendReadFail(t) ==
    /\ pc[t] = "locked"
    /\ op[t].kind = "submit"
    /\ subs' = [subs EXCEPT ![t] = Append(<<>>, op[t].sub)]
    /\ pc' = [pc EXCEPT ![t] = "open"]
    /\ UNCHANGED <<now, files, cache_mtime, cache_data, lock, op, ret, calls,
                   futures, users_lock>>

NotFound(kind) == IF kind = "update" THEN Ret("None", <<>>) ELSE Ret("False", <<>>)

\* update_submission[_return]: load, no record has the id
UpdateNotFound(t) ==
    /\ pc[t] = "locked"
    /\ op[t].kind \in {"update", "task"}
    /\ FirstIndex(load_submissions_unlocked, op[t].id) = 0
    /\ LoadCache
    /\ Finish(t, NotFound(op[t].kind))
    /\ UNCHANGED <<users_lock, now, files, op, calls, futures>>

\* update_submission[_return]: load, merge into the first record with the id
UpdateMerge(t) ==
    /\ pc[t] = "locked"
    /\ op[t].kind \in {"update", "task"}
    /\ LET list == load_submissions_unlocked
           i == FirstIndex(list, op[t].id)
       IN  /\ i # 0
           /\ subs' = [subs EXCEPT ![t] = [list EXCEPT ![i] = Merge(list[i], op[t].patch)]]
           /\ op' = [op EXCEPT ![t].sub = Merge(list[i], op[t].patch)]
    /\ LoadCache
    /\ pc' = [pc EXCEPT ![t] = "open"]
    /\ UNCHANGED <<users_lock, now, files, lock, ret, calls, futures>>

\* _atomic_write_json: open(tmp_path, "w") truncates the temporary file
WriteOpen(t) ==
    /\ pc[t] = "open"
    /\ files' = [files EXCEPT ![tmp_path(DATA_FILE)] = File(FALSE, <<>>, now)]
    /\ pc' = [pc EXCEPT ![t] = "dump"]
    /\ UNCHANGED <<users_lock, now, cache_mtime, cache_data, lock, op, subs, ret,
                   calls, futures>>

\* _atomic_write_json: json.dump writes the whole list and the file is closed
WriteDump(t) ==
    /\ pc[t] = "dump"
    /\ files' = [files EXCEPT ![tmp_path(DATA_FILE)] = File(TRUE, subs[t], now)]
    /\ pc' = [pc EXCEPT ![t] = "replace"]
    /\ UNCHANGED <<users_lock, now, cache_mtime, cache_data, lock, op, subs, ret,
                   calls, futures>>

\* _atomic_write_json: os.replace(tmp_path, path)
WriteReplace(t) ==
    /\ pc[t] = "replace"
    /\ files' = [p \in Paths |->
                    IF p = DATA_FILE THEN files[tmp_path(DATA_FILE)]
                    ELSE IF p = tmp_path(DATA_FILE) THEN Absent
                    ELSE files[p]]
    /\ pc' = [pc EXCEPT ![t] = "cache"]
    /\ UNCHANGED <<users_lock, now, cache_mtime, cache_data, lock, op, subs, ret,
                   calls, futures>>

Success(o) ==
    IF o.kind = "submit" THEN Ret("200", <<o.sub>>)
    ELSE IF o.kind = "update" THEN Ret("updated", <<o.sub>>)
    ELSE Ret("True", <<>>)

\* a variant in which the except branches answer as the normal return does
FailureMutAnswersSuccess(o) == Success(o)

\* what the except branch of a store call makes its caller answer
Failure(o) ==
    IF o.kind = "submit" THEN Ret("500", <<>>)
    ELSE IF o.kind = "update" THEN Ret("None", <<>>)
    ELSE Ret("False", <<>>)

\* a variant that returns without refreshing the cache
WriteCacheMutKeepsCache(t) ==
    /\ pc[t] = "cache"
    /\ Finish(t, Success(op[t]))
    /\ UNCHANGED <<users_lock, now, files, cache_mtime, cache_data, op, calls, futures>>

\* the cache is set to what was written, the lock released, the call returns
WriteCache(t) ==
    /\ pc[t] = "cache"
    /\ cache_mtime' = files[DATA_FILE].mtime
    /\ cache_data' = subs[t]
    /\ Finish(t, Success(op[t]))
    /\ UNCHANGED <<users_lock, now, files, op, calls, futures>>

\* a variant that sets the cached list before the write has gone through
WriteFailMutCachesFirst(t) ==
    /\ pc[t] \in {"open", "dump", "replace"}
    /\ cache_data' = subs[t]
    /\ Finish(t, Failure(op[t]))
    /\ UNCHANGED <<users_lock, now, files, cache_mtime, op, calls, futures>>

\* a variant whose except branch is reached with submissions_lock still held
WriteFailMutKeepsLock(t) ==
    /\ pc[t] \in {"open", "dump", "replace"}
    /\ pc' = [pc EXCEPT ![t] = "done"]
    /\ ret' = [ret EXCEPT ![t] = Failure(op[t])]
    /\ subs' = [subs EXCEPT ![t] = <<>>]
    /\ UNCHANGED <<users_lock, now, files, cache_mtime, cache_data, lock, op,
                   calls, futures>>

\* an I/O error at open, json.dump or os.replace: the except branch
WriteFail(t) ==
    /\ pc[t] \in {"open", "dump", "replace"}
    /\ Finish(t, Failure(op[t]))
    /\ UNCHANGED <<users_lock, now, files, cache_mtime, cache_data, op, calls, futures>>

\* ------------------------------------------------------- the users file
\* load_users: the list in users.json, [] when the file cannot be parsed
load_users ==
    IF files[USERS_FILE].exists /\ files[USERS_FILE].complete
    THEN files[USERS_FILE].list ELSE <<>>

Emails(users) == {users[i].email : i \in 1..Len(users)}

\* the defaults ensure_default_users appends: those whose email no user has
RECURSIVE MissingDefaults(_, _)
MissingDefaults(users, defaults) ==
    IF defaults = <<>> THEN <<>>
    ELSE IF Head(defaults).email \in Emails(users)
         THEN MissingDefaults(users, Tail(defaults))
         ELSE <<Head(defaults)>> \o MissingDefaults(users, Tail(defaults))

\* ensure_default_users is running: the module is still being imported and no
\* request is served
Booting == \E t \in Threads : op[t].kind = "defaults" /\ InFlight(t)

\* what a register request may carry as its email
RegisterEmails == {"a@example.com", "b@example.com"}

\* POST auth/register whose passwords differ: 400 before anything is read
RegisterMismatch(t) ==
    /\ pc[t] \in {"idle", "done"}
    /\ ~Booting
    /\ pc' = [pc EXCEPT ![t] = "done"]
    /\ op' = [op EXCEPT ![t] = Op("register", MissingId, NoPatch, NoRecord)]
    /\ ret' = [ret EXCEPT ![t] = Ret("400", <<>>)]
    /\ UNCHANGED <<now, files, cache_mtime, cache_data, lock, subs, calls, futures,
                   users_lock>>

\* POST auth/register up to its call of save_users: load_users (under
\* users_lock, released again), the duplicate check, users.append(user)
Register(t, email) ==
    /\ pc[t] \in {"idle", "done"}
    /\ ~Booting
    /\ users_lock = "free"
    /\ op' = [op EXCEPT ![t] = Op("register", MissingId, NoPatch, NoRecord)]
    /\ IF email \in Emails(load_users)
       THEN /\ pc' = [pc EXCEPT ![t] = "done"]
            /\ ret' = [ret EXCEPT ![t] = Ret("400", <<>>)]
            /\ subs' = [subs EXCEPT ![t] = <<>>]
       ELSE /\ pc' = [pc EXCEPT ![t] = "users_acquire"]
            /\ ret' = [ret EXCEPT ![t] = NoRet]
            /\ subs' = [subs EXCEPT ![t] = Append(load_users, User(email, "user"))]
    /\ UNCHANGED <<now, files, cache_mtime, cache_data, lock, calls, futures,
                   users_lock>>

\* save_users: with users_lock
UsersAcquire(t) ==
    /\ pc[t] = "users_acquire"
    /\ users_lock = "free"
    /\ users_lock' = t
    /\ pc' = [pc EXCEPT ![t] = "users_open"]
    /\ UNCHANGED <<now, files, cache_mtime, cache_data, lock, op, subs, ret,
                   calls, futures>>

\* save_users: open(USERS_FILE, "w") truncates the users file itself
UsersOpen(t) ==
    /\ pc[t] = "users_open"
    /\ files' = [files EXCEPT ![USERS_FILE] = File(FALSE, <<>>, now)]
    /\ pc' = [pc EXCEPT ![t] = "users_dump"]
    /\ UNCHANGED <<now, cache_mtime, cache_data, lock, op, subs, ret,
                   calls, futures, users_lock>>

\* save_users: json.dump writes the whole list, the file is closed and the
\* lock released; register answers with the token of the new user
UsersDump(t) ==
    /\ pc[t] = "users_dump"
    /\ files' = [files EXCEPT ![USERS_FILE] = File(TRUE, subs[t], now)]
    /\ users_lock' = "free"
    /\ pc' = [pc EXCEPT ![t] = "done"]
    /\ ret' = [ret EXCEPT ![t] =
                  IF op[t].kind = "register" THEN Ret("200", <<subs[t][Len(subs[t])]>>)
                  ELSE NoRet]
    /\ subs' = [subs EXCEPT ![t] = <<>>]
    /\ UNCHANGED <<now, cache_mtime, cache_data, lock, op, calls, futures>>

\* an I/O error at open or json.dump: the with block releases the lock and the
\* exception leaves save_users (500 from register)
UsersFail(t) ==
    /\ pc[t] \in {"users_open", "users_dump"}
    /\ users_lock' = "free"
    /\ pc' = [pc EXCEPT ![t] = "done"]
    /\ ret' = [ret EXCEPT ![t] = Ret("500", <<>>)]
    /\ subs' = [subs EXCEPT ![t] = <<>>]
    /\ UNCHANGED <<now, files, cache_mtime, cache_data, lock, op, calls, futures>>

Tick ==
    /\ now < MaxClock
    /\ now' = now + 1
    /\ UNCHANGED <<users_lock, files, cache_mtime, cache_data, lock, pc, op,
                   subs, ret, calls, futures>>

\* the process dies where it stands and is started again: the files survive,
\* the module level state (cache, locks, threads) is initialised anew, and the
\* import runs ensure_default_users, which calls save_users when load_users
\* lacks a default user
CrashRestart ==
    /\ cache_mtime' = None
    /\ cache_data' = <<>>
    /\ lock' = "free"
    /\ users_lock' = "free"
    /\ LET missing == MissingDefaults(load_users, DefaultUsers)
           boots(t) == t = "t1" /\ missing # <<>>
       IN  /\ pc' = [t \in Threads |-> IF boots(t) THEN "users_acquire" ELSE "idle"]
           /\ op' = [t \in Threads |->
                        IF boots(t) THEN Op("defaults", MissingId, NoPatch, NoRecord)
                        ELSE NoOp]
           /\ subs' = [t \in Threads |-> IF boots(t) THEN load_users \o missing ELSE <<>>]
    /\ ret' = [t \in Threads |-> NoRet]
    /\ calls' = [t \in Threads |-> NoCall]
    /\ futures' = <<>>
    /\ UNCHANGED <<now, files>>

Next ==
    \/ \E t \in Threads : StartLoad(t)
    \/ \E t \in Threads, rating \in StoreRatings, text \in StoreTexts,
          rnd \in 0..(RandBelow - 1), out \in StoreOutputs :
            StartSubmit(t, rating, text, rnd, out)
    \/ \E t \in Threads, id \in TargetIds, patch \in StorePatches :
            StartUpdate(t, id, patch)
    \/ \E t \in Threads : Acquire(t)
    \/ \E t \in Threads : Load(t)
    \/ \E t \in Threads : SaveAppend(t)
    \/ \E t \in Threads : UpdateNotFound(t)
    \/ \E t \in Threads : UpdateMerge(t)
    \/ \E t \in Threads : WriteOpen(t)
    \/ \E t \in Threads : WriteDump(t)
    \/ \E t \in Threads : WriteReplace(t)
    \/ \E t \in Threads : WriteCache(t)
    \/ \E t \in Threads : WriteFail(t)
    \/ Tick
    \/ CrashRestart

\* two threads on the store: listing, submit-review and status corrections,
\* with I/O errors and crashes
Spec == Init /\ [][Next]_vars

\* one thread, every kind of call and of partial field set
NextOps ==
    \/ StartLoad("t1")
    \/ \E rating \in StoreRatings, text \in StoreTexts,
          rnd \in 0..(RandBelow - 1), out \in StoreOutputs :
            StartSubmit("t1", rating, text, rnd, out)
    \/ \E id \in TargetIds, patch \in Patches : StartUpdate("t1", id, patch)
    \/ \E id \in TargetIds, rating \in StoreRatings, text \in StoreTexts,
          out \in StoreOutputs : StartTask("t1", id, rating, text, out)
    \/ Acquire("t1")
    \/ Load("t1")
    \/ SaveAppend("t1")
    \/ UpdateNotFound("t1")
    \/ UpdateMerge("t1")
    \/ WriteOpen("t1")
    \/ WriteDump("t1")
    \/ WriteReplace("t1")
    \/ WriteCache("t1")
    \/ WriteFail("t1")
    \/ Tick
    \/ CrashRestart

SpecOps == Init /\ [][NextOps]_vars

\* one thread serving submit-review on the empty store for every request body
\* and every behaviour of the model, at one clock reading, with no I/O error
NextSubmit ==
    \/ \E rating \in RequestRatings, text \in RequestTexts, out \in ModelOutputs :
            files[DATA_FILE].list = <<>> /\ StartSubmit("t1", rating, text, 0, out)
    \/ \E rating \in RequestRatings, text \in RequestTexts :
            RejectSubmit("t1", rating, text)
    \/ Acquire("t1")
    \/ SaveAppend("t1")
    \/ WriteOpen("t1")
    \/ WriteDump("t1")
    \/ WriteReplace("t1")
    \/ WriteCache("t1")

SpecSubmit == Init /\ [][NextSubmit]_vars

\* the store a run of the server left behind: one record, nothing cached
StoredRecord ==
    BuildSubmission(SubmissionId(0, 0), 2, NegativeText,
                    instant_ai_pack(2, NegativeText, "None"), 0)

InitRace ==
    /\ now = 0
    /\ files = InitialFiles(<<StoredRecord>>)
    /\ cache_mtime = None
    /\ cache_data = <<>>
    /\ lock = "free"
    /\ pc = [t \in Threads |-> "idle"]
    /\ op = [t \in Threads |-> NoOp]
    /\ subs = [t \in Threads |-> <<>>]
    /\ ret = [t \in Threads |-> NoRet]
    /\ calls = [t \in Threads |-> NoCall]
    /\ futures = <<>>
    /\ users_lock = "free"

\* each thread makes one call of update_submission_return, in any interleaving
NextRace ==
    \/ \E t \in Threads, id \in TargetIds, patch \in {StatusPatch, ResponsePatch} :
            pc[t] = "idle" /\ StartUpdate(t, id, patch)
    \/ \E t \in Threads : Acquire(t)
    \/ \E t \in Threads : UpdateNotFound(t)
    \/ \E t \in Threads : UpdateMerge(t)
    \/ \E t \in Threads : WriteOpen(t)
    \/ \E t \in Threads : WriteDump(t)
    \/ \E t \in Threads : WriteReplace(t)
    \/ \E t \in Threads : WriteCache(t)
    \/ \E t \in Threads : WriteFail(t)
    \/ Tick

SpecRace == InitRace /\ [][NextRace]_vars

\* stores a run of the server left behind: a second record, and the lists the
\* file may hold (one record, two records in either order, two records under
\* one id of which update has changed the first)
SecondRecord ==
    BuildSubmission(SubmissionId(0, 1), 2, NegativeText,
                    instant_ai_pack(2, NegativeText, "None"), 0)

StoredLists ==
    {<<StoredRecord>>,
     <<StoredRecord, SecondRecord>>,
     <<SecondRecord, StoredRecord>>,
     <<[StoredRecord EXCEPT !.status = "failed"], StoredRecord>>}

\* the server over such a file, the cache either empty or filled by the last write
InitCall ==
    /\ now = 0
    /\ \E list \in StoredLists :
          /\ files = InitialFiles(list)
          /\ \/ cache_mtime = None /\ cache_data = <<>>
             \/ cache_mtime = 0 /\ cache_data = list
    /\ lock = "free"
    /\ pc = [t \in Threads |-> "idle"]
    /\ op = [t \in Threads |-> NoOp]
    /\ subs = [t \in Threads |-> <<>>]
    /\ ret = [t \in Threads |-> NoRet]
    /\ calls = [t \in Threads |-> NoCall]
    /\ futures = <<>>
    /\ users_lock = "free"

\* one call of update_submission_return or of process_submission_task, with
\* every partial field set, on a stored or a missing id, at any clock reading
NextCall ==
    \/ \E id \in TargetIds, patch \in Patches :
            pc["t1"] = "idle" /\ StartUpdate("t1", id, patch)
    \/ \E id \in TargetIds, rating \in StoreRatings, text \in StoreTexts,
          out \in StoreOutputs :
            pc["t1"] = "idle" /\ StartTask("t1", id, rating, text, out)
    \/ Acquire("t1")
    \/ UpdateNotFound("t1")
    \/ UpdateMerge("t1")
    \/ WriteOpen("t1")
    \/ WriteDump("t1")
    \/ WriteReplace("t1")
    \/ WriteCache("t1")
    \/ WriteFail("t1")
    \/ Tick

SpecCall == InitCall /\ [][NextCall]_vars

\* two threads writing the store (submit-review and status corrections) at one
\* clock reading, with I/O errors and crashes between any two steps of a write
NextCrash ==
    \/ \E t \in Threads, rating \in StoreRatings, text \in StoreTexts,
          out \in StoreOutputs : StartSubmit(t, rating, text, 0, out)
    \/ \E t \in Threads, id \in TargetIds : StartUpdate(t, id, StatusPatch)
    \/ \E t \in Threads : Acquire(t)
    \/ \E t \in Threads : SaveAppend(t)
    \/ \E t \in Threads : UpdateNotFound(t)
    \/ \E t \in Threads : UpdateMerge(t)
    \/ \E t \in Threads : WriteOpen(t)
    \/ \E t \in Threads : WriteDump(t)
    \/ \E t \in Threads : WriteReplace(t)
    \/ \E t \in Threads : WriteCache(t)
    \/ \E t \in Threads : WriteFail(t)
    \/ CrashRestart

SpecCrash == Init /\ [][NextCrash]_vars

\* two threads listing, submitting and correcting a status in one process,
\* with clock ticks and I/O errors
NextCache ==
    \/ \E t \in Threads : StartLoad(t)
    \/ \E t \in Threads, rating \in StoreRatings, text \in StoreTexts,
          out \in StoreOutputs : StartSubmit(t, rating, text, 0, out)
    \/ \E t \in Threads, id \in TargetIds : StartUpdate(t, id, StatusPatch)
    \/ \E t \in Threads : Acquire(t)
    \/ \E t \in Threads : Load(t)
    \/ \E t \in Threads : SaveAppend(t)
    \/ \E t \in Threads : UpdateNotFound(t)
    \/ \E t \in Threads : UpdateMerge(t)
    \/ \E t \in Threads : WriteOpen(t)
    \/ \E t \in Threads : WriteDump(t)
    \/ \E t \in Threads : WriteReplace(t)
    \/ \E t \in Threads : WriteCache(t)
    \/ \E t \in Threads : WriteFail(t)
    \/ Tick

SpecCache == Init /\ [][NextCache]_vars

\* what another program may leave in the submissions file: no JSON document,
\* a document that is neither a list nor an object with a list under
\* "submissions", or that list, bare or wrapped
ForeignContents ==
    {File(FALSE, <<>>, now), ShapedFile("other", <<StoredRecord>>, now),
     ShapedFile("wrapped", <<StoredRecord>>, now), File(TRUE, <<StoredRecord>>, now)}

\* the file is rewritten from outside the process: the lock does not bind the
\* writer, and the mtime is the clock reading of the write
ExternalWrite(content) ==
    /\ files' = [files EXCEPT ![DATA_FILE] = content]
    /\ UNCHANGED <<users_lock, now, cache_mtime, cache_data, lock, pc, op, subs, ret,
                   calls, futures>>

\* one thread listing and submitting while the file is rewritten from outside
\* (submit-review is not started beyond MaxRecords cached records either)
NextForeign ==
    \/ StartLoad("t1")
    \/ \E rating \in StoreRatings, text \in StoreTexts, out \in StoreOutputs :
            /\ Len(cache_data) < MaxRecords
            /\ StartSubmit("t1", rating, text, 0, out)
    \/ Acquire("t1")
    \/ Load("t1")
    \/ SaveAppend("t1")
    \/ WriteOpen("t1")
    \/ WriteDump("t1")
    \/ WriteReplace("t1")
    \/ WriteCache("t1")
    \/ \E content \in ForeignContents : ExternalWrite(content)
    \/ Tick

SpecForeign == Init /\ [][NextForeign]_vars

\* two threads listing and submitting while reads and writes of the
\* submissions file may hit I/O errors
NextReadFail ==
    \/ \E t \in Threads : StartLoad(t)
    \/ \E t \in Threads, rating \in StoreRatings, text \in StoreTexts,
          out \in StoreOutputs : StartSubmit(t, rating, text, 0, out)
    \/ \E t \in Threads : Acquire(t)
    \/ \E t \in Threads : Load(t)
    \/ \E t \in Threads : LoadReadFail(t)
    \/ \E t \in Threads : SaveAppend(t)
    \/ \E t \in Threads : SaveAppendReadFail(t)
    \/ \E t \in Threads : WriteOpen(t)
    \/ \E t \in Threads : WriteDump(t)
    \/ \E t \in Threads : WriteReplace(t)
    \/ \E t \in Threads : WriteCache(t)
    \/ \E t \in Threads : WriteFail(t)
    \/ Tick

SpecReadFail == Init /\ [][NextReadFail]_vars

\* ------------------------------------------- the pure functions, applied
\* texts for the heuristic: empty, whitespace only, and every combination of
\* five keywords (scores -3 to 5)
KeywordSample == {"amazing", "excellent", "good", "terrible", "rude"}
HeuristicTexts ==
    {EmptyText, BlankText} \cup {Text(FALSE, kws) : kws \in SUBSET KeywordSample}
\* texts for the snippet: of two words, of exactly SnippetWords, of one more
\* and of twice as many, with and without terminal punctuation
SnippetTexts ==
    {Words(n, terminal) :
        n \in {2, SnippetWords, SnippetWords + 1, 2 * SnippetWords},
        terminal \in BOOLEAN}

\* the arguments of a call: any rating and heuristic text with the model not
\* configured, or any request body with any behaviour of the model
InitPack ==
    /\ now = 0
    /\ files = InitialFiles(<<>>)
    /\ cache_mtime = None
    /\ cache_data = <<>>
    /\ lock = "free"
    /\ pc = [t \in Threads |-> "idle"]
    /\ op = [t \in Threads |-> NoOp]
    /\ subs = [t \in Threads |-> <<>>]
    /\ ret = [t \in Threads |-> NoRet]
    /\ futures = <<>>
    /\ users_lock = "free"
    /\ \E rating \in RequestRatings,
          text \in HeuristicTexts \cup SnippetTexts \cup RequestTexts,
          out \in ModelOutputs :
          /\ text \in RequestTexts \/ out = NoAnswer("not_configured")
          /\ calls = [t \in Threads |->
                        IF t = "t1"
                        THEN Call("called", rating, text, out, 0, NoPack, FALSE, None)
                        ELSE NoCall]

\* _predict_stars_from_text_heuristic(rating, review_text)
ApplyHeuristic(t) ==
    /\ calls[t].stage # "idle"
    /\ ~calls[t].scored
    /\ calls' = [calls EXCEPT
                    ![t].scored = TRUE,
                    ![t].stars = predict_stars_from_text_heuristic(
                                     calls[t].rating, calls[t].text)]
    /\ UNCHANGED <<users_lock, now, files, cache_mtime, cache_data, lock, pc, op, subs, ret,
                   futures>>

\* _instant_ai_pack(rating, review_text, username): its snippet
ApplySnippet(t) ==
    /\ calls[t].stage # "idle"
    /\ calls[t].snippet = NoSnippet
    /\ calls' = [calls EXCEPT ![t].snippet = Snippet(calls[t].text)]
    /\ UNCHANGED <<users_lock, now, files, cache_mtime, cache_data, lock, pc, op,
                   subs, ret, futures>>

\* generate_ai_pack(rating, review_text, username) from its call to its return
GeneratePack(t) ==
    /\ calls[t].stage = "called"
    /\ calls' = [calls EXCEPT
                    ![t].stage = "returned",
                    ![t].pack = generate_ai_pack(calls[t].rating, calls[t].text,
                                                 "None", calls[t].out)]
    /\ UNCHANGED <<users_lock, now, files, cache_mtime, cache_data, lock, pc, op, subs, ret,
                   futures>>

NextPack == ApplyHeuristic("t1") \/ ApplySnippet("t1") \/ GeneratePack("t1")

SpecPack == InitPack /\ [][NextPack]_vars

\* one thread serving submit-review with no model configured, for every
\* request body over the heuristic's texts, with no I/O error
NextInstant ==
    \/ \E rating \in RequestRatings, text \in HeuristicTexts :
            /\ files[DATA_FILE].list = <<>>
            /\ StartSubmit("t1", rating, text, 0, NoAnswer("not_configured"))
    \/ \E rating \in RequestRatings, text \in HeuristicTexts :
            RejectSubmit("t1", rating, text)
    \/ Acquire("t1")
    \/ SaveAppend("t1")
    \/ WriteOpen("t1")
    \/ WriteDump("t1")
    \/ WriteReplace("t1")
    \/ WriteCache("t1")

SpecInstant == Init /\ [][NextInstant]_vars

\* two threads: submit-review, and the submission listing requested by every
\* kind of principal
NextAdmin ==
    \/ \E t \in Threads, rating \in StoreRatings, text \in StoreTexts,
          out \in StoreOutputs : StartSubmit(t, rating, text, 0, out)
    \/ \E t \in Threads, role \in Principals : GetAllSubmissions(t, role)
    \/ \E t \in Threads : Acquire(t)
    \/ \E t \in Threads : Load(t)
    \/ \E t \in Threads : SaveAppend(t)
    \/ \E t \in Threads : WriteOpen(t)
    \/ \E t \in Threads : WriteDump(t)
    \/ \E t \in Threads : WriteReplace(t)
    \/ \E t \in Threads : WriteCache(t)

SpecAdmin == Init /\ [][NextAdmin]_vars

\* two threads serving register, with I/O errors and crashes between any two
\* steps of save_users
NextUsers ==
    \/ \E t \in Threads : RegisterMismatch(t)
    \/ \E t \in Threads, email \in RegisterEmails : Register(t, email)
    \/ \E t \in Threads : UsersAcquire(t)
    \/ \E t \in Threads : UsersOpen(t)
    \/ \E t \in Threads : UsersDump(t)
    \/ \E t \in Threads : UsersFail(t)
    \/ CrashRestart

SpecUsers == Init /\ [][NextUsers]_vars

\* ------------------------------------------------------------ analytics
\* clock readings that share one calendar day
TicksPerDay == 2 * TicksPerSecond
\* strftime("%Y-%m-%d") of a clock reading, and the prefix of its isoformat
Day(clock) == clock \div TicksPerDay

\* the rating filter: s.get("rating") == rating
RatingFiltered(list, q) ==
    IF q.rating = None THEN list
    ELSE LET keep(r) == r.rating = q.rating IN SelectSeq(list, keep)

\* the date range filter at clock reading `clock`: a record stays when its
\* timestamp lies in the custom range (both ends given and parsed), else in
\* the last 7, 30 or 365 days; with "all" next to a single end, or a range
\* that does not parse, none stays
DateFiltered(list, q, clock) ==
    IF q.date_range = "all" /\ q.start_date.kind = "absent"
       /\ q.end_date.kind = "absent"
    THEN list
    ELSE LET keep(r) ==
                 IF q.start_date.kind # "absent" /\ q.end_date.kind # "absent"
                 THEN /\ q.start_date.kind = "date" /\ q.end_date.kind = "date"
                      /\ q.start_date.val <= r.timestamp
                      /\ r.timestamp <= q.end_date.val
                 ELSE IF q.date_range = "week"
                      THEN r.timestamp >= clock - 7 * TicksPerDay
                 ELSE IF q.date_range = "month"
                      THEN r.timestamp >= clock - 30 * TicksPerDay
                 ELSE IF q.date_range = "year"
                      THEN r.timestamp >= clock - 365 * TicksPerDay
                 ELSE FALSE
         IN  SelectSeq(list, keep)

\* a variant that walks the seven days from today backwards
TrendLabelsMutNewestFirst(clock, m) ==
    [i \in 1..7 |-> Day(clock) + (IF i > m THEN 1 ELSE 0) - (i - 1)]

\* the labels of the trend: for i = 6 down to 0 the date of
\* datetime.now() - i days, where now() is read anew for each label: the first
\* m labels are made before midnight passes, the others after
TrendLabels(clock, m) ==
    [i \in 1..7 |-> Day(clock) + (IF i > m THEN 1 ELSE 0) - (7 - i)]

\* per label the number of records whose timestamp starts with it
TrendData(list, labels) ==
    [i \in 1..7 |->
        Cardinality({j \in 1..Len(list) : Day(list[j].timestamp) = labels[i]})]

\* round(matches / total_with_prediction * 100, 1), in tenths of a percent
Accuracy(matches, total_with_prediction) ==
    IF total_with_prediction = 0 THEN None
    ELSE (2000 * matches + total_with_prediction) \div (2 * total_with_prediction)

\* get_analytics on the loaded list: the counts it answers with (the average,
\* the radar and the insights, which are derived from them, are left out)
get_analytics(list, q, clock, m) ==
    LET filtered == DateFiltered(RatingFiltered(list, q), q, clock)
        labels == TrendLabels(clock, m)
        predicted == {j \in 1..Len(filtered) :
                         /\ filtered[j].predicted_stars # None
                         /\ InRange(filtered[j].predicted_stars)}
        matches == Cardinality({j \in predicted :
                       filtered[j].rating = filtered[j].predicted_stars})
        ai_higher == Cardinality({j \in predicted :
                       filtered[j].predicted_stars > filtered[j].rating})
    IN  IF filtered = <<>>
        THEN [total_reviews |-> 0, trends_labels |-> labels,
              trends_data |-> [i \in 1..7 |-> 0],
              matches |-> 0, ai_higher |-> 0, ai_lower |-> 0,
              positive_reviews |-> 0, ai_accuracy |-> None]
        ELSE [total_reviews |->
                  Cardinality({j \in 1..Len(filtered) : InRange(filtered[j].rating)}),
              trends_labels |-> labels,
              trends_data |-> TrendData(filtered, labels),
              matches |-> matches, ai_higher |-> ai_higher,
              ai_lower |-> Cardinality(predicted) - matches - ai_higher,
              positive_reviews |->
                  Cardinality({j \in 1..Len(filtered) :
                      InRange(filtered[j].rating) /\ filtered[j].rating >= 4}),
              ai_accuracy |-> Accuracy(matches, Cardinality(predicted))]

\* GET analytics up to its call of load_submissions
StartAnalytics(t, q) ==
    /\ pc[t] \in {"idle", "done"}
    /\ pc' = [pc EXCEPT ![t] = "acquire"]
    /\ op' = [op EXCEPT ![t] =
                 [Op("analytics", MissingId, NoPatch, NoRecord) EXCEPT !.query = q]]
    /\ ret' = [ret EXCEPT ![t] = NoRet]
    /\ UNCHANGED <<now, files, cache_mtime, cache_data, lock, subs, calls, futures,
                   users_lock>>

\* GET analytics from the read under the lock to its answer
Analytics(t, m) ==
    /\ pc[t] = "locked"
    /\ op[t].kind = "analytics"
    /\ LoadCache
    /\ Finish(t, Ret("analytics",
                     <<get_analytics(load_submissions_unlocked, op[t].query, now, m)>>))
    /\ UNCHANGED <<now, files, op, calls, futures, users_lock>>

\* the clock readings of the analytics runs: the first and the last of day 8
AnalyticsClocks == {8 * TicksPerDay, 9 * TicksPerDay - 1}
\* how long before `now` a stored record was submitted: just now, a day, six
\* days, exactly seven days, and a little more than seven days ago
Ages == {0, TicksPerDay, 6 * TicksPerDay, 7 * TicksPerDay, 7 * TicksPerDay + 1}
AnalyticsBodies == {<<2, NegativeText>>, <<3, PlainText>>}

\* the record submit-review stored for this body at this clock reading
Submitted(body, clock, rnd) ==
    BuildSubmission(<<Second(clock), rnd>>, body[1], body[2],
                    instant_ai_pack(body[1], body[2], "None"), clock)

\* the lists of up to MaxRecords such records, as a write of the server
\* leaves them sorted
AnalyticsLists(clock) ==
    {list \in UNION {[1..n -> {Submitted(b, clock - a, 0) :
                                   b \in AnalyticsBodies, a \in Ages}] :
                       n \in 0..MaxRecords} :
        \A i \in 1..(Len(list) - 1) : list[i].timestamp >= list[i + 1].timestamp}

AnalyticsQueries ==
    {Query(d, r, NoDate, NoDate) : d \in {"all", "week", "month", "year"},
                                    r \in {None, 2, 4}}
    \cup {Query("all", None, s, e) :
            s \in {DateArg("date", 2 * TicksPerDay), DateArg("bad", 0)},
            e \in {NoDate, DateArg("date", 8 * TicksPerDay)}}

\* the server over a store of such records, nothing cached, at such a reading
InitAnalytics ==
    /\ now \in AnalyticsClocks
    /\ \E list \in AnalyticsLists(now) : files = InitialFiles(list)
    /\ cache_mtime = None
    /\ cache_data = <<>>
    /\ lock = "free"
    /\ pc = [t \in Threads |-> "idle"]
    /\ op = [t \in Threads |-> NoOp]
    /\ subs = [t \in Threads |-> <<>>]
    /\ ret = [t \in Threads |-> NoRet]
    /\ calls = [t \in Threads |-> NoCall]
    /\ futures = <<>>
    /\ users_lock = "free"

\* one analytics request, with every query, midnight passing at any label
NextAnalytics ==
    \/ \E q \in AnalyticsQueries : pc["t1"] = "idle" /\ StartAnalytics("t1", q)
    \/ Acquire("t1")
    \/ \E m \in 0..7 : Analytics("t1", m)

SpecAnalytics == InitAnalytics /\ [][NextAnalytics]_vars

\* ------------------------------------ the model call and its worker pool
\* ThreadPoolExecutor(max_workers=AI_MAX_WORKERS), default 2
AI_MAX_WORKERS == 2

\* what model.generate_content may do when it does come back: raise, return
\* text without JSON, a whole answer, or an answer without a summary
GenOutputs ==
    {NoAnswer("exception"), NoAnswer("unparsable"),
     ModelOut("json", "model_response", "model_summary", "model_actions",
              Pred("int", 3), "model_explanation"),
     ModelOut("json", "model_response", "", "model_actions",
              Pred("int", 3), "model_explanation")}

Running == {i \in 1..Len(futures) : futures[i].state = "running"}
Queued == {i \in 1..Len(futures) : futures[i].state = "queued"}

\* generate_ai_pack with a model configured, up to future.result(timeout=...):
\* _ai_executor.submit queues the call of the model and returns at once
SubmitCall(t, rating, text) ==
    /\ calls[t].stage \in {"idle", "returned"}
    /\ Len(futures) < MaxFutures
    /\ futures' = Append(futures, Future("queued", NoAnswer("timeout")))
    /\ calls' = [calls EXCEPT ![t] =
                    Call("waiting", rating, text, NoAnswer("timeout"),
                         Len(futures) + 1, NoPack, FALSE, None)]
    /\ UNCHANGED <<users_lock, now, files, cache_mtime, cache_data, lock, pc, op, subs, ret>>

\* a free worker of the pool takes the oldest queued future
WorkerTakes ==
    /\ Queued # {}
    /\ Cardinality(Running) < AI_MAX_WORKERS
    /\ LET i == CHOOSE q \in Queued : \A r \in Queued : q <= r
       IN  futures' = [futures EXCEPT ![i].state = "running"]
    /\ UNCHANGED <<users_lock, now, files, cache_mtime, cache_data, lock, pc, op, subs, ret,
                   calls>>

\* model.generate_content comes back on its worker, which is free again
ModelResponds(i, out) ==
    /\ i \in Running
    /\ futures' = [futures EXCEPT ![i] = Future("done", out)]
    /\ UNCHANGED <<users_lock, now, files, cache_mtime, cache_data, lock, pc, op, subs, ret,
                   calls>>

\* future.result returns (or raises what the model raised) within the timeout
ResultArrives(t) ==
    /\ calls[t].stage = "waiting"
    /\ futures[calls[t].fut].state = "done"
    /\ calls' = [calls EXCEPT
                    ![t].stage = "returned",
                    ![t].out = futures[calls[t].fut].out,
                    ![t].pack = generate_ai_pack(calls[t].rating, calls[t].text,
                                                 "None", futures[calls[t].fut].out)]
    /\ UNCHANGED <<users_lock, now, files, cache_mtime, cache_data, lock, pc, op, subs, ret,
                   futures>>

\* a variant in which only a future that a worker has started can time out
TimeoutMutOnlyWhenRunning(t) ==
    /\ calls[t].stage = "waiting"
    /\ futures[calls[t].fut].state = "running"
    /\ calls' = [calls EXCEPT
                    ![t].stage = "returned",
                    ![t].out = NoAnswer("timeout"),
                    ![t].pack = generate_ai_pack(calls[t].rating, calls[t].text,
                                                 "None", NoAnswer("timeout"))]
    /\ UNCHANGED <<users_lock, now, files, cache_mtime, cache_data, lock, pc, op, subs, ret,
                   futures>>

\* future.result raises FuturesTimeoutError after AI_TIMEOUT_SECONDS: the
\* future is neither cancelled nor taken from its worker
Timeout(t) ==
    /\ calls[t].stage = "waiting"
    /\ futures[calls[t].fut].state # "done"
    /\ calls' = [calls EXCEPT
                    ![t].stage = "returned",
                    ![t].out = NoAnswer("timeout"),
                    ![t].pack = generate_ai_pack(calls[t].rating, calls[t].text,
                                                 "None", NoAnswer("timeout"))]
    /\ UNCHANGED <<users_lock, now, files, cache_mtime, cache_data, lock, pc, op, subs, ret,
                   futures>>

NextGen ==
    \/ \E t \in Threads, rating \in StoreRatings, text \in StoreTexts :
            SubmitCall(t, rating, text)
    \/ WorkerTakes
    \/ \E i \in 1..MaxFutures, out \in GenOutputs : ModelResponds(i, out)
    \/ \E t \in Threads : ResultArrives(t)
    \/ \E t \in Threads : Timeout(t)

\* callers and workers in any interleaving; the model may never come back
SpecGen == Init /\ [][NextGen]_vars

\* future.result(timeout=...) does return: with the result once the future is
\* done, with the timeout otherwise
SpecGenFair ==
    /\ SpecGen
    /\ \A t \in Threads : WF_vars(ResultArrives(t)) /\ WF_vars(Timeout(t))

\* two threads calling load, append and update again and again at one clock
\* reading, with I/O errors in the read and in the write
NextStore ==
    \/ \E t \in Threads : StartLoad(t)
    \/ \E t \in Threads, rating \in StoreRatings, text \in StoreTexts,
          out \in StoreOutputs : StartSubmit(t, rating, text, 0, out)
    \/ \E t \in Threads, id \in TargetIds : StartUpdate(t, id, StatusPatch)
    \/ \E t \in Threads : Acquire(t)
    \/ \E t \in Threads : Load(t)
    \/ \E t \in Threads : LoadReadFail(t)
    \/ \E t \in Threads : SaveAppend(t)
    \/ \E t \in Threads : SaveAppendReadFail(t)
    \/ \E t \in Threads : UpdateNotFound(t)
    \/ \E t \in Threads : UpdateMerge(t)
    \/ \E t \in Threads : WriteOpen(t)
    \/ \E t \in Threads : WriteDump(t)
    \/ \E t \in Threads : WriteReplace(t)
    \/ \E t \in Threads : WriteCache(t)
    \/ \E t \in Threads : WriteFail(t)

SpecStore == Init /\ [][NextStore]_vars

\* fair scheduling: a thread that can take its next statement does take it
\* (or an I/O error ends the call), and a thread waiting for
\* submissions_lock gets it when the lock is free again and again
\* (threading.Lock hands the lock to no waiter in particular)
SpecStoreFair ==
    /\ SpecStore
    /\ \A t \in Threads :
          /\ SF_vars(Acquire(t))
          /\ WF_vars(Load(t) \/ LoadReadFail(t))
          /\ WF_vars(SaveAppend(t) \/ SaveAppendReadFail(t))
          /\ WF_vars(UpdateNotFound(t))
          /\ WF_vars(UpdateMerge(t))
          /\ WF_vars(WriteOpen(t) \/ WriteFail(t))
          /\ WF_vars(WriteDump(t) \/ WriteFail(t))
          /\ WF_vars(WriteReplace(t) \/ WriteFail(t))
          /\ WF_vars(WriteCache(t))

\* the stores two concurrent requests may find: none yet, or one record
PairStores == {<<>>, <<StoredRecord>>}

InitPair ==
    /\ now = 0
    /\ \E list \in PairStores :
          /\ files = InitialFiles(list)
          /\ \/ cache_mtime = None /\ cache_data = <<>>
             \/ cache_mtime = 0 /\ cache_data = list
    /\ lock = "free"
    /\ pc = [t \in Threads |-> "idle"]
    /\ op = [t \in Threads |-> NoOp]
    /\ subs = [t \in Threads |-> <<>>]
    /\ ret = [t \in Threads |-> NoRet]
    /\ calls = [t \in Threads |-> NoCall]
    /\ futures = <<>>
    /\ users_lock = "free"

\* the two requests carry different ratings (neither that of StoredRecord)
PairRating(t) == IF t = "t1" THEN 1 ELSE 5

\* each thread makes one call, in any interleaving: submit-review (which
\* appends), or update_submission_return on the id of the stored record
NextPair ==
    \/ \E t \in Threads, text \in StoreTexts, rnd \in 0..(RandBelow - 1),
          out \in StoreOutputs :
            pc[t] = "idle" /\ StartSubmit(t, PairRating(t), text, rnd, out)
    \/ \E t \in Threads :
            pc[t] = "idle" /\ StartUpdate(t, StoredRecord.id, StatusPatch)
    \/ \E t \in Threads : Acquire(t)
    \/ \E t \in Threads : SaveAppend(t)
    \/ \E t \in Threads : UpdateNotFound(t)
    \/ \E t \in Threads : UpdateMerge(t)
    \/ \E t \in Threads : WriteOpen(t)
    \/ \E t \in Threads : WriteDump(t)
    \/ \E t \in Threads : WriteReplace(t)
    \/ \E t \in Threads : WriteCache(t)
    \/ \E t \in Threads : WriteFail(t)

SpecPair == InitPair /\ [][NextPair]_vars

\* ================================================================ claims
StoredList == files[DATA_FILE].list

\* timestamps do not increase along the list
NewestFirst(list) ==
    \A i \in 1..(Len(list) - 1) : list[i].timestamp >= list[i + 1].timestamp

\* thread t's call passes from pc value `from` to pc value `to` in this step
Steps(t, from, to) == pc[t] = from /\ pc'[t] = to

KeyFields == {"id", "rating", "review_text"}

\* C1: after a successful append of x the next load returns a list that holds
\* x, and x comes before every record of it with an earlier timestamp.
\* Stated at the step that completes save_submission, about what
\* _load_submissions_unlocked returns in the state that step leaves.
C1_AppendThenLoadNewestFirst ==
    [][\A t \in Threads :
        (Steps(t, "cache", "done") /\ op[t].kind = "submit") =>
            LET list == load_submissions_unlocked'
                x == op[t].sub
            IN  \E i \in 1..Len(list) :
                    /\ list[i] = x
                    /\ \A j \in 1..Len(list) :
                          list[j].timestamp < x.timestamp => i < j]_vars

\* C2: every list a load returns is ordered newest first.
C2_LoadNewestFirst ==
    \A t \in Threads : ret[t].tag = "list" => NewestFirst(ret[t].val)

\* C3: when two calls of update on the same id with disjoint field sets have
\* both completed, in whatever interleaving, the stored record carries the
\* values of both field sets.
C3_NoLostUpdate ==
    \A t1 \in Threads : \A t2 \in Threads \ {t1} :
        (/\ pc[t1] = "done" /\ ret[t1].tag = "updated"
         /\ pc[t2] = "done" /\ ret[t2].tag = "updated"
         /\ op[t1].id = op[t2].id
         /\ op[t1].patch.keys \cap op[t2].patch.keys = {})
        => /\ \E i \in 1..Len(StoredList) : StoredList[i].id = op[t1].id
           /\ LET i == FirstIndex(load_submissions_unlocked, op[t1].id)
                  r == load_submissions_unlocked[i]
              IN  /\ \A f \in op[t1].patch.keys : r[f] = op[t1].patch.rec[f]
                  /\ \A f \in op[t2].patch.keys : r[f] = op[t2].patch.rec[f]
           /\ \A i \in 1..Len(StoredList) :
                 StoredList[i].id = op[t1].id =>
                    /\ \A f \in op[t1].patch.keys :
                          StoredList[i][f] = op[t1].patch.rec[f]
                    /\ \A f \in op[t2].patch.keys :
                          StoredList[i][f] = op[t2].patch.rec[f]

C3_BothUpdatesDone ==
    /\ pc["t1"] = "done" /\ ret["t1"].tag = "updated" /\ op["t1"].patch = StatusPatch
    /\ pc["t2"] = "done" /\ ret["t2"].tag = "updated" /\ op["t2"].patch = ResponsePatch
    /\ op["t1"].id = op["t2"].id

\* C4: update on an id the store holds changes, in the first record with that
\* id, the fields the partial field set names and nothing else: the list keeps
\* its length, every other record and every other field is as load returned
\* it; the call writes exactly that list and returns the merged record.
C4_UpdateFrame ==
    [][\A t \in Threads :
        /\ (Steps(t, "locked", "open") /\ op[t].kind \in {"update", "task"}) =>
              LET old == load_submissions_unlocked
                  new == subs'[t]
              IN  /\ Len(new) = Len(old)
                  /\ \E i \in 1..Len(old) :
                        /\ old[i].id = op[t].id
                        /\ \A j \in 1..(i - 1) : old[j].id # op[t].id
                        /\ \A j \in (1..Len(old)) \ {i} : new[j] = old[j]
                        /\ \A f \in Fields \ op[t].patch.keys : new[i][f] = old[i][f]
                        /\ \A f \in op[t].patch.keys : new[i][f] = op[t].patch.rec[f]
                        /\ op'[t].sub = new[i]
        /\ (Steps(t, "cache", "done") /\ op[t].kind = "update") =>
              /\ ret'[t] = Ret("updated", <<op[t].sub>>)
              /\ StoredList = subs[t]
              /\ load_submissions_unlocked' = subs[t]]_vars

C4_UpdatedOneOfTwo ==
    \E t \in Threads :
        /\ pc[t] = "done" /\ ret[t].tag = "updated" /\ op[t].patch = StatusPatch
        /\ Len(StoredList) = 2
        /\ ret[t].val[1].status = "failed"
        /\ \E i \in 1..2 : StoredList[i].status = "completed"

\* C5: update on an id no stored record has answers not-found (None from
\* update_submission_return, False from update_submission) and writes nothing:
\* the files are untouched and load returns what it returned before.
C5_UpdateMissingId ==
    [][\A t \in Threads :
        (/\ pc[t] = "locked" /\ pc'[t] \in {"open", "done"}
         /\ op[t].kind \in {"update", "task"}
         /\ \A i \in 1..Len(load_submissions_unlocked) :
               load_submissions_unlocked[i].id # op[t].id)
        => /\ pc'[t] = "done"
           /\ ret'[t] = IF op[t].kind = "update" THEN Ret("None", <<>>)
                        ELSE Ret("False", <<>>)
           /\ files' = files
           /\ load_submissions_unlocked' = load_submissions_unlocked]_vars

C5_MissingIdAnswered ==
    \E t \in Threads :
        /\ pc[t] = "done" /\ op[t].kind = "task" /\ ret[t].tag = "False"
        /\ op[t].id = MissingId
        /\ StoredList # <<>>

\* C6: no two records of the store have the same id.
C6_UniqueIds ==
    \A i \in 1..Len(StoredList), j \in 1..Len(StoredList) :
        i # j => StoredList[i].id # StoredList[j].id

\* C7: every record submit-review persists has rating in 1..5 and
\* predicted_stars null or in 1..5, whatever the request carried and whatever
\* the model answered.
C7_PersistedRanges ==
    \A i \in 1..Len(StoredList) :
        /\ InRange(StoredList[i].rating)
        /\ StoredList[i].predicted_stars = None \/ InRange(StoredList[i].predicted_stars)

C7_ModelPackPersisted ==
    \E i \in 1..Len(StoredList) :
        /\ StoredList[i].ai_response = "model_response"
        /\ StoredList[i].review_text = PositiveText
        /\ StoredList[i].rating = 1
        /\ StoredList[i].predicted_stars = 3

\* how often the store holds a record with these id, rating and review_text
KeyCount(list, r) ==
    Cardinality({i \in 1..Len(list) :
                    /\ list[i].id = r.id
                    /\ list[i].rating = r.rating
                    /\ list[i].review_text = r.review_text})

KeysKept ==
    \A i \in 1..Len(StoredList) :
        KeyCount(StoredList', StoredList[i]) >= KeyCount(StoredList, StoredList[i])

\* C8 as stated: no step of any append or update changes the id, rating or
\* review_text of a stored record.
C8_KeyFieldsNeverChange == [][KeysKept]_vars

\* C8, the part that holds: the id, rating and review_text of a stored record
\* change only in a call of update whose partial field set names one of them;
\* append, process_submission_task and every other update leave them as they are.
C8_KeyFieldsChangeOnlyByNamingPatch ==
    [][\/ KeysKept
       \/ \E t \in Threads :
             /\ Steps(t, "replace", "cache")
             /\ op[t].kind = "update"
             /\ op[t].patch.keys \cap KeyFields # {}]_vars

\* C9 as stated: a call of update that changes a stored record also moves its
\* timestamp (checked where the clock has moved past the record's timestamp,
\* so that a fresh one would differ).
C9_UpdateMovesTimestamp ==
    [][\A t \in Threads :
        (Steps(t, "locked", "open") /\ op[t].kind = "update") =>
            \A i \in 1..Len(subs'[t]) :
                (/\ subs'[t][i] # load_submissions_unlocked[i]
                 /\ now > load_submissions_unlocked[i].timestamp)
                => subs'[t][i].timestamp # load_submissions_unlocked[i].timestamp]_vars

\* C9 as amended: update writes the timestamp only when the partial field set
\* names it; process_submission_task always names it, with the clock reading
\* it took when it built its updates, so each record it changes gets that
\* timestamp in the same merge.
C9_TimestampOnlyFromPatch ==
    [][\A t \in Threads :
        /\ (pc[t] \in {"idle", "done"} /\ pc'[t] = "acquire" /\ op'[t].kind = "task") =>
              /\ "timestamp" \in op'[t].patch.keys
              /\ op'[t].patch.rec.timestamp = now
        /\ (Steps(t, "locked", "open") /\ op[t].kind = "task") =>
              op'[t].sub.timestamp = op[t].patch.rec.timestamp
        /\ (/\ Steps(t, "locked", "open") /\ op[t].kind = "update"
            /\ "timestamp" \notin op[t].patch.keys) =>
              \A i \in 1..Len(subs'[t]) :
                  subs'[t][i].timestamp = load_submissions_unlocked[i].timestamp]_vars

C9_TaskStampedRecord ==
    \E t \in Threads :
        /\ pc[t] = "done" /\ op[t].kind = "task" /\ ret[t].tag = "True"
        /\ op[t].sub.timestamp = 1
        /\ op[t].sub.status = "completed"
        /\ \E i \in 1..Len(StoredList) : StoredList[i] = op[t].sub

\* C10: the submissions file always holds a whole record list; it changes only
\* at os.replace, to the whole list the writing call built; a crash changes no
\* file.
C10_AtomicReplace ==
    /\ [](files[DATA_FILE].exists /\ files[DATA_FILE].complete)
    /\ [][/\ files'[DATA_FILE] # files[DATA_FILE] =>
                \E t \in Threads :
                    /\ Steps(t, "replace", "cache")
                    /\ files'[DATA_FILE].complete
                    /\ files'[DATA_FILE].list = subs[t]
          /\ (\E t \in Threads : pc[t] \in {"open", "dump", "replace", "cache"}
                                 /\ pc'[t] = "idle") =>
                files' = files]_vars

\* a crash between open and the end of json.dump: the temporary file is cut
\* short, the submissions file still holds the records written before
C10_CrashedMidWrite ==
    /\ \A t \in Threads : pc[t] = "idle"
    /\ cache_mtime = None
    /\ files[tmp_path(DATA_FILE)].exists
    /\ ~files[tmp_path(DATA_FILE)].complete
    /\ files[DATA_FILE].complete
    /\ Len(StoredList) = 1

\* how often a list holds a record
Count(list, r) == Cardinality({i \in 1..Len(list) : list[i] = r})

\* two lists hold the same records, in whatever order
SameRecords(a, b) ==
    /\ Len(a) = Len(b)
    /\ \A i \in 1..Len(a) : Count(a, a[i]) = Count(b, a[i])

\* C11: a write that succeeds leaves the cache holding exactly what it wrote
\* under the file's new mtime, and every load of the process returns the
\* records the file holds, that is those of the last write: the cache never
\* serves an older version.
C11_LoadSeesLastWrite ==
    [][\A t \in Threads :
        /\ Steps(t, "cache", "done") =>
              /\ cache_mtime' = files'[DATA_FILE].mtime
              /\ cache_data' = StoredList'
              /\ StoredList' = subs[t]
        /\ (Steps(t, "locked", "done") /\ op[t].kind = "load") =>
              /\ ret'[t].tag = "list"
              /\ SameRecords(ret'[t].val, StoredList)]_vars

\* a load that came after two writes at one clock reading (one mtime) and
\* returned both of them
C11_LoadAfterTwoWrites ==
    \E t \in Threads :
        /\ pc[t] = "done" /\ op[t].kind = "load"
        /\ ret[t].val = StoredList
        /\ Len(StoredList) = 2
        /\ StoredList[1].status = "failed"
        /\ files[DATA_FILE].mtime = 0

\* C12: when open, json.dump or os.replace fails during an append,
\* submit-review answers 500 (save_submission returned None), the submissions
\* file and the cache are as the call found them, and a load returns the list
\* without the new record.
C12_AppendFailureReported ==
    [][\A t \in Threads :
        (/\ pc[t] \in {"open", "dump", "replace"} /\ pc'[t] = "done"
         /\ op[t].kind = "submit")
        => /\ ret'[t] = Ret("500", <<>>)
           /\ files'[DATA_FILE] = files[DATA_FILE]
           /\ cache_mtime' = cache_mtime /\ cache_data' = cache_data
           /\ subs[t] = Append(load_submissions_unlocked, op[t].sub)
           /\ load_submissions_unlocked' = load_submissions_unlocked
           /\ StoredList' = load_submissions_unlocked']_vars

\* an append onto a store of one record failed at os.replace: the whole new
\* list is in the temporary file, the submissions file still holds one record
C12_AppendFailedAtReplace ==
    \E t \in Threads :
        /\ pc[t] = "done" /\ op[t].kind = "submit" /\ ret[t].tag = "500"
        /\ Len(StoredList) = 1
        /\ files[tmp_path(DATA_FILE)].complete
        /\ Len(files[tmp_path(DATA_FILE)].list) = 2

\* C13: when the write fails during an update, what the caller receives is
\* neither the not-found outcome nor a success.
C13_UpdateFailureDistinct ==
    [][\A t \in Threads :
        (/\ pc[t] \in {"open", "dump", "replace"} /\ pc'[t] = "done"
         /\ op[t].kind \in {"update", "task"})
        => /\ ret'[t] # NotFound(op[t].kind)
           /\ ret'[t].tag \notin {"updated", "True"}]_vars

\* the submissions file holds no JSON document, or one that is neither a list
\* nor an object with a list under "submissions"
Malformed == ~files[DATA_FILE].complete \/ files[DATA_FILE].shape = "other"

\* C14 as stated: a load that finds the file malformed returns the empty list.
C14_MalformedLoadsEmpty ==
    [][(Steps("t1", "locked", "done") /\ op["t1"].kind = "load" /\ Malformed)
       => ret'["t1"] = Ret("list", <<>>)]_vars

\* C14 as amended: load always returns a list; when it reads the file (nothing
\* is cached under the file's mtime) and the file is malformed, it returns the
\* empty list; while the cached mtime is the file's it returns the cached list
\* and does not look at the file.
C14_MalformedReadLoadsEmpty ==
    [][(Steps("t1", "locked", "done") /\ op["t1"].kind = "load")
       => /\ ret'["t1"].tag = "list"
          /\ (Malformed /\ ~CacheHit) => ret'["t1"].val = <<>>
          /\ CacheHit => ret'["t1"].val = cache_data]_vars

\* a load read a document of another shape, written at clock reading 1, and
\* returned (and cached) the empty list
C14_LoadedOtherShape ==
    /\ pc["t1"] = "done" /\ op["t1"].kind = "load"
    /\ ret["t1"] = Ret("list", <<>>)
    /\ files[DATA_FILE].shape = "other"
    /\ files[DATA_FILE].mtime = 1
    /\ cache_mtime = 1 /\ cache_data = <<>>

\* the pc values inside "with submissions_lock"
CriticalSection == {"locked", "open", "dump", "replace", "cache"}

\* C15: at most one thread is inside the critical section of load, append or
\* update, and it is the holder of submissions_lock.
C15_MutualExclusion ==
    \A t \in Threads :
        pc[t] \in CriticalSection =>
            /\ lock = t
            /\ \A u \in Threads \ {t} : pc[u] \notin CriticalSection

\* a load holds the lock while an append waits for it
C15_ReaderHoldsWriterWaits ==
    \E t \in Threads : \E u \in Threads \ {t} :
        /\ pc[t] = "locked" /\ op[t].kind = "load" /\ lock = t
        /\ pc[u] = "acquire" /\ op[u].kind = "submit"

\* the model gave no pack to use: it is not configured, timed out, raised,
\* returned no JSON object, or left one of the three prose fields empty
Unusable(out) ==
    \/ out.kind # "json"
    \/ out.ai_response = "" \/ out.ai_summary = "" \/ out.ai_recommended_actions = ""

\* C16: every call of generate_ai_pack returns a pack whose ai_response,
\* ai_summary and ai_recommended_actions are all non-empty.
C16_PackNeverEmpty ==
    \A t \in Threads :
        /\ calls[t].stage = "called" => ENABLED GeneratePack(t)
        /\ calls[t].stage = "returned" =>
              /\ calls[t].pack.ai_response # ""
              /\ calls[t].pack.ai_summary # ""
              /\ calls[t].pack.ai_recommended_actions # ""

\* a call with an out-of-range rating and the empty text, for which the model
\* raised, has returned
C16_ReturnedAfterException ==
    \E t \in Threads :
        /\ calls[t].stage = "returned"
        /\ calls[t].out.kind = "exception"
        /\ calls[t].rating = 0 /\ calls[t].text = EmptyText
        /\ calls[t].pack.ai_recommended_actions = "instant_mid_actions"

\* C17: when the model's answer is unusable, the pack returned is exactly the
\* instant pack of the call's arguments.
C17_UnusableGivesInstantPack ==
    \A t \in Threads :
        (calls[t].stage = "returned" /\ Unusable(calls[t].out)) =>
            calls[t].pack = instant_ai_pack(calls[t].rating, calls[t].text, "None")

\* the model answered with a response, actions, an explanation and 3 stars but
\* no summary, for a one-star review: nothing of the answer is in the pack
C17_PartialAnswerDiscarded ==
    \E t \in Threads :
        /\ calls[t].stage = "returned"
        /\ calls[t].out.kind = "json"
        /\ calls[t].out.ai_response = "model_response"
        /\ calls[t].out.ai_summary = ""
        /\ calls[t].out.predicted_stars = Pred("int", 3)
        /\ calls[t].out.prediction_explanation = "model_explanation"
        /\ calls[t].rating = 1 /\ calls[t].text = NegativeText
        /\ calls[t].pack.predicted_stars = 1
        /\ calls[t].pack.ai_response = "instant_low_response"

\* C19: for a rating in 1..5 and an empty or whitespace-only text the
\* heuristic returns the rating.
C19_BlankTextReturnsRating ==
    \A t \in Threads :
        (calls[t].scored /\ InRange(calls[t].rating) /\ calls[t].text.blank) =>
            calls[t].stars = calls[t].rating

\* the heuristic was applied to rating 5 and a whitespace-only text
C19_ScoredWhitespaceOnly ==
    \E t \in Threads :
        /\ calls[t].scored
        /\ calls[t].text = BlankText
        /\ calls[t].rating = 5 /\ calls[t].stars = 5

\* C20 as stated: the heuristic returns an integer in 1..5 for every rating and
\* text, and for a blank text the rating, or 3 when the rating is out of range.
C20_AlwaysInRange ==
    \A t \in Threads :
        calls[t].scored =>
            /\ InRange(calls[t].stars)
            /\ calls[t].text.blank => calls[t].stars = BaseRating(calls[t].rating)

\* C20 as amended: for a text that is not blank the heuristic returns an
\* integer in 1..5, and an out-of-range rating counts as 3; for a blank text it
\* returns the rating when that is in 1..5 and null otherwise.
C20_InRangeUnlessBlankAndOutOfRange ==
    \A t \in Threads :
        calls[t].scored =>
            /\ ~calls[t].text.blank =>
                  /\ InRange(calls[t].stars)
                  /\ ~InRange(calls[t].rating) =>
                        calls[t].stars =
                            predict_stars_from_text_heuristic(3, calls[t].text)
            /\ calls[t].text.blank =>
                  calls[t].stars =
                      IF InRange(calls[t].rating) THEN calls[t].rating ELSE None

\* the heuristic was applied to rating 6 and a text whose keywords cancel out
C20_ScoredOutOfRangeRating ==
    \E t \in Threads :
        /\ calls[t].scored
        /\ calls[t].rating = 6
        /\ calls[t].text = Text(FALSE, {"good", "rude"})
        /\ calls[t].stars = 3

\* C18: every call of generate_ai_pack that waits on the model returns, and a
\* call whose wait timed out returns the instant pack of its arguments.
C18_EveryCallReturns ==
    /\ \A t \in Threads :
          (calls[t].stage = "waiting") ~> (calls[t].stage = "returned")
    /\ [][\A t \in Threads :
            (/\ calls[t].stage = "waiting" /\ calls'[t].stage = "returned"
             /\ futures[calls[t].fut].state # "done")
            => /\ calls'[t].out.kind = "timeout"
               /\ calls'[t].pack =
                      instant_ai_pack(calls[t].rating, calls[t].text, "None")]_vars

\* a call has returned the instant pack while its future is still queued
\* behind workers that are all busy with calls the model never answered
C18_TimedOutWhileQueued ==
    \E t \in Threads :
        /\ calls[t].stage = "returned"
        /\ calls[t].out.kind = "timeout"
        /\ calls[t].pack.ai_response = "instant_low_response"
        /\ futures[calls[t].fut].state = "queued"
        /\ Cardinality(Running) = AI_MAX_WORKERS

\* C21: whatever the rating, the heuristic returns 1 for a text whose
\* accumulated keyword score is at most -2 and 5 for one whose score is at
\* least 4.
C21_ExtremeScoresDecide ==
    \A t \in Threads :
        (calls[t].scored /\ ~calls[t].text.blank) =>
            /\ KeywordScore(calls[t].text) <= -2 => calls[t].stars = 1
            /\ KeywordScore(calls[t].text) >= 4 => calls[t].stars = 5

\* the heuristic was applied to rating 5 and a text holding one strong-negative
\* keyword and nothing else (score -2), and answered 1
C21_ScoredStrongNegative ==
    \E t \in Threads :
        /\ calls[t].scored
        /\ calls[t].rating = 5
        /\ calls[t].text = Text(FALSE, {"terrible"})
        /\ calls[t].stars = 1

\* the heuristic's effective rating: its answer, or the base rating when it
\* has none
EffectiveRating(rating, text) ==
    IF predict_stars_from_text_heuristic(rating, text) # None
    THEN predict_stars_from_text_heuristic(rating, text)
    ELSE BaseRating(rating)

\* a record as submit-review stores it with no model configured: completed,
\* predicted_stars the effective rating, and the response of its tone (the
\* apology at 2 or less, the balanced thanks at 3, the warm thanks at 4 or more)
InstantRecord(r) ==
    /\ r.status = "completed"
    /\ r.predicted_stars = EffectiveRating(r.rating, r.review_text)
    /\ r.predicted_stars <= 2 => r.ai_response = "instant_low_response"
    /\ r.predicted_stars = 3 => r.ai_response = "instant_mid_response"
    /\ r.predicted_stars >= 4 => r.ai_response = "instant_high_response"

\* C22 as stated: with no model configured every stored record is an instant
\* record, and rating 1 with a text holding a strong-negative keyword gives
\* predicted_stars of 2 or less and the apology.
C22_StrongNegativeKeywordGivesApology ==
    \A i \in 1..Len(StoredList) :
        /\ InstantRecord(StoredList[i])
        /\ (/\ StoredList[i].rating = 1
            /\ StoredList[i].review_text.kws \cap strong_neg # {})
           => /\ StoredList[i].predicted_stars <= 2
              /\ StoredList[i].ai_response = "instant_low_response"

\* C22 as amended: with no model configured every stored record is an instant
\* record, and rating 1 with a text that holds a strong-negative keyword and
\* whose accumulated score is 0 or less gives predicted_stars of 2 or less and
\* the apology.
C22_NegativeScoreGivesApology ==
    \A i \in 1..Len(StoredList) :
        /\ InstantRecord(StoredList[i])
        /\ (/\ StoredList[i].rating = 1
            /\ StoredList[i].review_text.kws \cap strong_neg # {}
            /\ KeywordScore(StoredList[i].review_text) <= 0)
           => /\ StoredList[i].predicted_stars <= 2
              /\ StoredList[i].ai_response = "instant_low_response"

\* rating 1 with "terrible" and "rude" in the text was stored with one
\* predicted star and the apology
C22_StoredTerribleRude ==
    \E i \in 1..Len(StoredList) :
        /\ StoredList[i].rating = 1
        /\ StoredList[i].review_text = NegativeText
        /\ StoredList[i].predicted_stars = 1
        /\ StoredList[i].ai_response = "instant_low_response"
        /\ StoredList[i].status = "completed"

\* C23: the submission listing returns records only to a principal whose role
\* is admin; a request with no principal or with role "user" gets none.
C23_AdminOnlyRead ==
    \A t \in Threads :
        (pc[t] = "done" /\ op[t].kind = "load" /\ ret[t].tag = "list"
         /\ ret[t].val # <<>>)
        => op[t].role = "admin"

\* C24: the users file always holds a whole user list, and a crash during
\* save_users leaves in it either the whole list it held before the call or
\* the whole list the call was writing.
C24_UsersFileAtomic ==
    /\ [](files[USERS_FILE].exists /\ files[USERS_FILE].complete)
    /\ [][\A t \in Threads :
            (pc[t] \in {"users_open", "users_dump"} /\ pc'[t] \in {"idle", "users_acquire"})
            => /\ files'[USERS_FILE].complete
               /\ \E k \in 0..Len(subs[t]) :
                     files'[USERS_FILE].list = SubSeq(subs[t], 1, k)]_vars

\* C25: every analytics answer has exactly 7 trend buckets, ordered oldest to
\* newest; on an empty store, and whenever the filters selected nothing, all 7
\* buckets are zero and ai_accuracy is null.
C25_SevenBuckets ==
    \A t \in Threads :
        (pc[t] = "done" /\ op[t].kind = "analytics") =>
            /\ ret[t].tag = "analytics"
            /\ LET r == ret[t].val[1]
               IN  /\ DOMAIN r.trends_labels = 1..7
                   /\ DOMAIN r.trends_data = 1..7
                   /\ \A i \in 1..6 : r.trends_labels[i] < r.trends_labels[i + 1]
                   /\ (StoredList = <<>> \/ r.total_reviews = 0) =>
                         /\ r.total_reviews = 0
                         /\ \A i \in 1..7 : r.trends_data[i] = 0
                         /\ r.ai_accuracy = None

\* the week filter selected nothing from a store whose only record is a
\* little more than seven days old, while midnight passed after the third label
C25_WeekSelectedNothing ==
    \E t \in Threads :
        /\ pc[t] = "done" /\ op[t].kind = "analytics"
        /\ op[t].query = Query("week", None, NoDate, NoDate)
        /\ Len(StoredList) = 1
        /\ StoredList[1].timestamp = now - 7 * TicksPerDay - 1
        /\ ret[t].val[1].total_reviews = 0
        /\ ret[t].val[1].trends_labels[3] = Day(now) - 4
        /\ ret[t].val[1].trends_labels[4] = Day(now) - 2

\* C26: the snippet is the first at most 18 words of the review text, and it
\* ends in an ellipsis only when the review has more than 18 words and the
\* snippet does not end in ".", "!" or "?".
C26_EllipsisOnlyWhenTruncated ==
    \A t \in Threads :
        calls[t].snippet # NoSnippet =>
            /\ calls[t].snippet.words =
                  (IF calls[t].text.words > 18 THEN 18 ELSE calls[t].text.words)
            /\ calls[t].snippet.ellipsis =>
                  (calls[t].text.words > 18 /\ ~calls[t].text.terminal)

\* C27: an append that succeeds removes no record: every record the
\* submissions file held before the call is still in it afterwards, also when
\* the read before the write hit an I/O error.
C27_AppendKeepsRecords ==
    [][\A t \in Threads :
        (Steps(t, "replace", "cache") /\ op[t].kind = "submit") =>
            \A i \in 1..Len(StoredList) :
                Count(StoredList', StoredList[i]) >= Count(StoredList, StoredList[i])]_vars

C29_StoreCallsComplete ==
    /\ [](\A t \in Threads : lock = t <=> pc[t] \in CriticalSection)
    /\ \A t \in Threads : InFlight(t) ~> (pc[t] = "done" /\ lock # t)

\* an append failed in its write and returned, and the other thread's append
\* now holds the lock the failed call released
C29_LockPassedAfterFailure ==
    /\ pc["t1"] = "done" /\ op["t1"].kind = "submit"
    /\ ret["t1"] = Ret("500", <<>>)
    /\ lock = "t2" /\ pc["t2"] = "open" /\ op["t2"].kind = "submit"
    /\ Len(subs["t2"]) = 1

\* what one store call makes of a list when it runs alone and succeeds
ApplyCall(list, o) ==
    IF o.kind = "submit" THEN Append(list, o.sub)
    ELSE LET i == FirstIndex(list, o.id)
         IN  IF i = 0 THEN list
             ELSE [list EXCEPT ![i] = Merge(list[i], o.patch)]

Succeeded(t) ==
    /\ pc[t] = "done"
    /\ \/ op[t].kind = "submit" /\ ret[t].tag = "200"
       \/ op[t].kind = "update" /\ ret[t].tag = "updated"

\* two appends, or an append and an update of another record
PairOfCalls(a, b) ==
    \/ a.kind = "submit" /\ b.kind = "submit"
    \/ a.kind = "submit" /\ b.kind = "update" /\ b.id # a.sub.id
    \/ a.kind = "update" /\ b.kind = "submit" /\ a.id # b.sub.id

EffectStored(o) ==
    IF o.kind = "submit" THEN Count(StoredList, o.sub) = 1
    ELSE \E i \in 1..Len(StoredList) :
            /\ StoredList[i].id = o.id
            /\ \A f \in o.patch.keys : StoredList[i][f] = o.patch.rec[f]

\* C30: when two appends, or an append and an update of another record, ran
\* concurrently and both succeeded, the file holds both effects and its list
\* is what the two calls give when run one after the other in some order.
C30_ConcurrentCallsSerialize ==
    (Succeeded("t1") /\ Succeeded("t2") /\ PairOfCalls(op["t1"], op["t2"]))
    => /\ EffectStored(op["t1"]) /\ EffectStored(op["t2"])
       /\ \E list \in PairStores :
             \/ StoredList = ApplyCall(ApplyCall(list, op["t1"]), op["t2"])
             \/ StoredList = ApplyCall(ApplyCall(list, op["t2"]), op["t1"])

\* an append and an update of the stored record both succeeded: the file
\* holds the corrected record and the new one
C30_AppendAndUpdateStored ==
    /\ Succeeded("t1") /\ Succeeded("t2")
    /\ op["t1"].kind = "submit" /\ op["t2"].kind = "update"
    /\ op["t1"].sub.id # op["t2"].id
    /\ Len(StoredList) = 2
    /\ StoredList[1] = [StoredRecord EXCEPT !.status = "failed"]
    /\ StoredList[2] = op["t1"].sub

====
